---- MODULE Spec2Model ----
(***************************************************************************)
(* Model of the TattooNOW show engine:                                     *)
(*   - the presentation state machine of SlideController.jsx, one replica  *)
(*     per window, synchronised over the 'tattoonow-slideshow-sync'        *)
(*     BroadcastChannel (specification Spec);                              *)
(*   - the rundown compiler buildSlidesFromShow.js (specification          *)
(*     BuildSpec).                                                         *)
(***************************************************************************)
EXTENDS Integers, Sequences, FiniteSets, TLC

VARIABLES
  slides,      \* the slide sequence every window of the session presents
  phase,       \* phase[w]: "rendered" (first render pass, effects not yet run),
               \* "mounted" (effects ran), "crashed" (the first render threw)
               \* or "closed" (unmounted, cleanups ran)
  win,         \* win[w]: the React state of window w's SlideController
  inbox,       \* inbox[w]: sync messages posted to w's channel, not yet handled
  opCount,     \* number of user/device operations issued so far
  show,        \* compiler input: the Show (rundown of entries)
  tapes,       \* compiler input: the resolved tape map
  built,       \* compiler output: NotBuilt, or the result of buildSlidesFromShow
  lastOp,      \* the input event a window handled last (operation harness)
  ws,          \* ws[w]: state of window w's Stream Deck WebSocket
  notes,       \* the 'tattoonow-notes-sync' channel and the notes popout window
  page,        \* the Slideshow page: load outcome and what it displays
  parsed,      \* a duration string and what parseDurationToMs returned for it
  rt           \* the browser resources of the windows: the wall clock, each
               \* window's channel object, interval timers and socket traffic

vars == <<slides, phase, win, inbox, opCount, show, tapes, built,
          lastOp, ws, notes, page, parsed, rt>>

presVars == <<slides, phase, win, inbox, opCount>>
buildVars == <<show, tapes, built>>
extVars == <<lastOp, ws, notes, page, parsed, rt>>

\* ---------------------------------------------------------------- bounds
MaxOps == 2
MaxInbox == 4
MaxElapsedTicks == 1

\* ------------------------------------------------------ program constants
TickMs == 250
\* JS null (selectedImage, showStartTime) is encoded as -1, never a valid value
NULL == -1
\* the value Date.now() returns when the show clock is latched
DateNow == 1

\* The two windows that run SlideController: ?mode=presenter and the audience
\* window (mode absent)
Windows == {"presenter", "audience"}

Min(a, b) == IF a < b THEN a ELSE b
Max(a, b) == IF a > b THEN a ELSE b

\* ------------------------------------------------------------ slide decks
Slide(d, seg) == [durationMs |-> d, segment |-> seg]

\* Slide sequences handed to SlideController (prebuiltSlides || buildSlides(...)).
\* durationMs 0 stands for a slide without a (positive) durationMs.
Decks ==
  { << Slide(250, 1), Slide(250, 1), Slide(500, 2), Slide(0, 2) >> }

\* `slide` URL parameters: <<>> is a value parseInt turns into NaN, <<k>> parses to k
UrlParams == { <<>>, <<-1>>, <<0>>, <<5>> }

ImageIndices == {0}

\* useState(isNaN(initialSlide) ? 0 : Math.max(0, initialSlide))
InitialIndex(p) == IF p = <<>> THEN 0 ELSE Max(0, p[1])

InitialState(p) ==
  [ currentSlideIndex |-> InitialIndex(p),
    showQR            |-> FALSE,
    showLowerThird    |-> FALSE,
    portfolioLayout   |-> "grid",
    selectedImage     |-> NULL,
    autoMode          |-> FALSE,
    slideElapsedMs    |-> 0,
    showStartTime     |-> NULL ]

\* ------------------------------------------------------------- messages
SlideChangeMsg(i)    == [type |-> "SLIDE_CHANGE", slideIndex |-> i]
QRToggleMsg(b)       == [type |-> "QR_TOGGLE", show |-> b]
LowerThirdMsg(b)     == [type |-> "LOWER_THIRD_TOGGLE", show |-> b]
LayoutToggleMsg(l)   == [type |-> "PORTFOLIO_LAYOUT_TOGGLE", layout |-> l]
SelectedImageMsg(i)  == [type |-> "SELECTED_IMAGE", imageIndex |-> i]
AutoModeMsg(b)       == [type |-> "AUTO_MODE_TOGGLE", auto |-> b]

\* An operation's outcome: the new React state and the messages it posts
Outcome(s, msgs) == [st |-> s, out |-> msgs]

\* ------------------------------------------------ state-machine operations
\* mutant: every call restarts the show clock
nextSlideRelatch(s, n) ==
  LET newIndex == Min(s.currentSlideIndex + 1, n - 1)
  IN Outcome([s EXCEPT !.showStartTime = DateNow,
                       !.currentSlideIndex = newIndex,
                       !.selectedImage = NULL,
                       !.portfolioLayout = "grid"],
             << SlideChangeMsg(newIndex), SelectedImageMsg(NULL) >>)

nextSlide(s, n) ==
  LET newIndex == Min(s.currentSlideIndex + 1, n - 1)
  IN Outcome([s EXCEPT !.showStartTime = IF @ # NULL THEN @ ELSE DateNow,
                       !.currentSlideIndex = newIndex,
                       !.selectedImage = NULL,
                       !.portfolioLayout = "grid"],
             << SlideChangeMsg(newIndex), SelectedImageMsg(NULL) >>)

\* mutant: previousSlide without the lower clamp
previousSlideUnclamped(s) ==
  LET newIndex == s.currentSlideIndex - 1
  IN Outcome([s EXCEPT !.currentSlideIndex = newIndex,
                       !.selectedImage = NULL,
                       !.portfolioLayout = "grid"],
             << SlideChangeMsg(newIndex), SelectedImageMsg(NULL) >>)

previousSlide(s) ==
  LET newIndex == Max(s.currentSlideIndex - 1, 0)
  IN Outcome([s EXCEPT !.currentSlideIndex = newIndex,
                       !.selectedImage = NULL,
                       !.portfolioLayout = "grid"],
             << SlideChangeMsg(newIndex), SelectedImageMsg(NULL) >>)

toggleQR(s) ==
  Outcome([s EXCEPT !.showQR = ~@], << QRToggleMsg(~s.showQR) >>)

toggleLowerThird(s) ==
  Outcome([s EXCEPT !.showLowerThird = ~@], << LowerThirdMsg(~s.showLowerThird) >>)

togglePortfolioLayout(s) ==
  LET newLayout == IF s.portfolioLayout = "grid" THEN "fullscreen" ELSE "grid"
  IN Outcome([s EXCEPT !.portfolioLayout = newLayout], << LayoutToggleMsg(newLayout) >>)

toggleAutoMode(s) ==
  Outcome([s EXCEPT !.autoMode = ~@], << AutoModeMsg(~s.autoMode) >>)

handleSelectImage(s, imageIndex) ==
  Outcome([s EXCEPT !.selectedImage = imageIndex,
                    !.portfolioLayout = IF imageIndex # NULL THEN "fullscreen" ELSE "grid"],
          << SelectedImageMsg(imageIndex) >>)

jumpToSlide(s, slideIndex, n) ==
  LET clamped == Max(0, Min(slideIndex, n - 1))
  IN Outcome([s EXCEPT !.showStartTime = IF @ # NULL THEN @ ELSE DateNow,
                       !.currentSlideIndex = clamped,
                       !.selectedImage = NULL,
                       !.portfolioLayout = "grid"],
             << SlideChangeMsg(clamped), SelectedImageMsg(NULL) >>)

\* slides.findIndex(slide => slide.segment === segmentNumber): 0-based, -1 if none
\* mutant: the last matching slide instead of the first
FindSegmentIndexLast(deck, segmentNumber) ==
  LET hits == { i \in 1..Len(deck) : deck[i].segment = segmentNumber }
  IN IF hits = {} THEN -1
     ELSE (CHOOSE i \in hits : \A j \in hits : i >= j) - 1

FindSegmentIndex(deck, segmentNumber) ==
  LET hits == { i \in 1..Len(deck) : deck[i].segment = segmentNumber }
  IN IF hits = {} THEN -1
     ELSE (CHOOSE i \in hits : \A j \in hits : i <= j) - 1

jumpToSegment(s, segmentNumber, deck) ==
  LET segmentIndex == FindSegmentIndex(deck, segmentNumber)
  IN IF segmentIndex >= 0 THEN jumpToSlide(s, segmentIndex, Len(deck))
     ELSE Outcome(s, << >>)

\* case 'Home': setCurrentSlideIndex(0)
keyHome(s) == Outcome([s EXCEPT !.currentSlideIndex = 0], << >>)

\* case 'End': setCurrentSlideIndex(slides.length - 1)
keyEnd(s, n) == Outcome([s EXCEPT !.currentSlideIndex = n - 1], << >>)

\* --------------------------------------------------- handlers of one window
Keys == { "ArrowRight", "PageDown", "ArrowLeft", "PageUp", "q", "Q", "l", "L",
          "g", "G", "a", "A", "Home", "End", "x" }

handleKeyPress(s, key, deck) ==
  CASE key \in {"ArrowRight", "PageDown"} -> nextSlide(s, Len(deck))
    [] key \in {"ArrowLeft", "PageUp"}    -> previousSlide(s)
    [] key \in {"q", "Q"}                 -> toggleQR(s)
    [] key \in {"l", "L"}                 -> toggleLowerThird(s)
    [] key \in {"g", "G"}                 -> togglePortfolioLayout(s)
    [] key \in {"a", "A"}                 -> toggleAutoMode(s)
    [] key = "Home"                       -> keyHome(s)
    [] key = "End"                        -> keyEnd(s, Len(deck))
    [] OTHER                              -> Outcome(s, << >>)

\* Commands the Stream Deck server sends over the WebSocket
SegmentNumbers == {1, 2, 9}

Commands ==
  { [action |-> a, segmentNumber |-> 0] :
      a \in {"next", "previous", "toggleQR", "toggleLowerThird",
             "togglePortfolioLayout", "bogus"} }
  \cup { [action |-> "jumpToSegment", segmentNumber |-> g] : g \in SegmentNumbers }

\* mutant: the device moves the cursor directly, without the shared operation
wsOnMessagePrivileged(s, command, deck) ==
  CASE command.action = "next"                  ->
         Outcome([s EXCEPT !.currentSlideIndex = Min(@ + 1, Len(deck) - 1)], << >>)
    [] command.action = "previous"              -> previousSlide(s)
    [] command.action = "toggleQR"              -> toggleQR(s)
    [] command.action = "toggleLowerThird"      -> toggleLowerThird(s)
    [] command.action = "togglePortfolioLayout" -> togglePortfolioLayout(s)
    [] command.action = "jumpToSegment"         -> jumpToSegment(s, command.segmentNumber, deck)
    [] OTHER                                    -> Outcome(s, << >>)

wsOnMessage(s, command, deck) ==
  CASE command.action = "next"                  -> nextSlide(s, Len(deck))
    [] command.action = "previous"              -> previousSlide(s)
    [] command.action = "toggleQR"              -> toggleQR(s)
    [] command.action = "toggleLowerThird"      -> toggleLowerThird(s)
    [] command.action = "togglePortfolioLayout" -> togglePortfolioLayout(s)
    [] command.action = "jumpToSegment"         -> jumpToSegment(s, command.segmentNumber, deck)
    [] OTHER                                    -> Outcome(s, << >>)

\* On-screen controls: the presenter's buttons and the clickable images
ImageControls ==
  { [control |-> "onSelectImage", arg |-> i] : i \in ImageIndices \cup {NULL} }

PresenterControls ==
  { [control |-> c, arg |-> 0] :
      c \in {"nextSlide", "previousSlide", "toggleQR", "toggleLowerThird",
             "toggleAutoMode"} }
  \cup { [control |-> "jumpToSlide", arg |-> i] : i \in {-1, 1, 7} }

\* PresenterView gets every operation as a prop, AudienceView only handleSelectImage
Controls(w) ==
  IF w = "presenter" THEN PresenterControls \cup ImageControls ELSE ImageControls

onClick(s, c, deck) ==
  CASE c.control = "nextSlide"        -> nextSlide(s, Len(deck))
    [] c.control = "previousSlide"    -> previousSlide(s)
    [] c.control = "toggleQR"         -> toggleQR(s)
    [] c.control = "toggleLowerThird" -> toggleLowerThird(s)
    [] c.control = "toggleAutoMode"   -> toggleAutoMode(s)
    [] c.control = "onSelectImage"    -> handleSelectImage(s, c.arg)
    [] c.control = "jumpToSlide"      -> jumpToSlide(s, c.arg, Len(deck))

\* channelRef.current.onmessage
\* mutant: an inbound SELECTED_IMAGE leaves the layout alone
onmessageSelectionOnly(s, m) ==
  CASE m.type = "SLIDE_CHANGE"            -> [s EXCEPT !.currentSlideIndex = m.slideIndex]
    [] m.type = "QR_TOGGLE"               -> [s EXCEPT !.showQR = m.show]
    [] m.type = "LOWER_THIRD_TOGGLE"      -> [s EXCEPT !.showLowerThird = m.show]
    [] m.type = "PORTFOLIO_LAYOUT_TOGGLE" -> [s EXCEPT !.portfolioLayout = m.layout]
    [] m.type = "SELECTED_IMAGE"          -> [s EXCEPT !.selectedImage = m.imageIndex]
    [] m.type = "AUTO_MODE_TOGGLE"        -> [s EXCEPT !.autoMode = m.auto]
    [] OTHER                              -> s

onmessage(s, m) ==
  CASE m.type = "SLIDE_CHANGE"            -> [s EXCEPT !.currentSlideIndex = m.slideIndex]
    [] m.type = "QR_TOGGLE"               -> [s EXCEPT !.showQR = m.show]
    [] m.type = "LOWER_THIRD_TOGGLE"      -> [s EXCEPT !.showLowerThird = m.show]
    [] m.type = "PORTFOLIO_LAYOUT_TOGGLE" -> [s EXCEPT !.portfolioLayout = m.layout]
    [] m.type = "SELECTED_IMAGE"          ->
         [s EXCEPT !.selectedImage = m.imageIndex,
                   !.portfolioLayout = IF m.imageIndex # NULL THEN "fullscreen" ELSE "grid"]
    [] m.type = "AUTO_MODE_TOGGLE"        -> [s EXCEPT !.autoMode = m.auto]
    [] OTHER                              -> s

\* ------------------------------------------------------------ React effects
\* The auto-advance effect's condition, read from the values of one render
\* mutant: the auto-advance effect without its `if (!autoMode) return`
AutoAdvanceDueAnyMode(s, deck) ==
  /\ s.currentSlideIndex + 1 \in 1..Len(deck)
  /\ deck[s.currentSlideIndex + 1].durationMs > 0
  /\ s.slideElapsedMs >= deck[s.currentSlideIndex + 1].durationMs
  /\ s.currentSlideIndex < Len(deck) - 1

AutoAdvanceDue(s, deck) ==
  /\ s.autoMode
  /\ s.currentSlideIndex + 1 \in 1..Len(deck)
  /\ deck[s.currentSlideIndex + 1].durationMs > 0
  /\ s.slideElapsedMs >= deck[s.currentSlideIndex + 1].durationMs
  /\ s.currentSlideIndex < Len(deck) - 1

\* After a handler the component re-renders with state cur (the previous render
\* had prev) and runs, in source order and with the values of THIS render, the
\* effects whose dependencies changed:
\*   [currentSlideIndex]: setSlideElapsedMs(0) and restart the interval;
\*   [autoMode, slideElapsedMs, currentSlideIndex, slides]: the auto-advance check.
\* Their state updates are batched into the next render, and so on until a
\* render changes nothing.
RECURSIVE RunEffects(_, _, _, _)
RunEffects(prev, cur, out, deck) ==
  LET indexChanged == cur.currentSlideIndex # prev.currentSlideIndex
      autoDepsChanged == \/ indexChanged
                         \/ cur.autoMode # prev.autoMode
                         \/ cur.slideElapsedMs # prev.slideElapsedMs
      afterTimer == IF indexChanged THEN [cur EXCEPT !.slideElapsedMs = 0] ELSE cur
      fire == autoDepsChanged /\ AutoAdvanceDue(cur, deck)
      advanced == nextSlide(afterTimer, Len(deck))
      nextState == IF fire THEN advanced.st ELSE afterTimer
      nextOut == IF fire THEN out \o advanced.out ELSE out
  IN IF nextState = cur THEN Outcome(cur, nextOut)
     ELSE RunEffects(cur, nextState, nextOut, deck)

\* The effects of the first render: clamp the initial index, start the timer
\* (the auto-advance effect returns at once: autoMode starts false)
MountEffects(s, deck) ==
  LET clamped == IF Len(deck) > 0 /\ s.currentSlideIndex >= Len(deck)
                 THEN [s EXCEPT !.currentSlideIndex = Len(deck) - 1]
                 ELSE s
  IN RunEffects(s, clamped, << >>, deck)

\* mutant: the interval callback adds two ticks
slideTimerTickDouble(s) == [s EXCEPT !.slideElapsedMs = @ + 2 * TickMs]

\* setInterval callback: setSlideElapsedMs(prev => prev + 250)
slideTimerTick(s) == [s EXCEPT !.slideElapsedMs = @ + TickMs]

\* ------------------------------------------------------------------ actions
\* postMessage: every other window whose channel is open gets the messages
Receivers(w) == { v \in Windows : v # w /\ phase[v] = "mounted" }

Post(w, out) ==
  /\ \A v \in Receivers(w) : Len(inbox[v]) + Len(out) <= MaxInbox
  /\ inbox' = [v \in Windows |-> IF v \in Receivers(w) THEN inbox[v] \o out ELSE inbox[v]]

\* Handler outcome oc in window w, then its re-render and effects
Commit(w, oc) ==
  LET r == RunEffects(win[w], oc.st, oc.out, slides)
  IN /\ win' = [win EXCEPT ![w] = r.st]
     /\ Post(w, r.out)

\* The first render reads slides[currentSlideIndex] and dereferences it
\* (currentSlide.showLowerThird, currentSlide.durationMs)
RenderThrows(s, deck) ==
  Len(deck) > 0 /\ s.currentSlideIndex + 1 \notin 1..Len(deck)

\* A render that throws unmounts the tree: no effect of the window ever runs
RenderError(w) ==
  /\ phase[w] = "rendered"
  /\ RenderThrows(win[w], slides)
  /\ phase' = [phase EXCEPT ![w] = "crashed"]
  /\ UNCHANGED <<slides, win, inbox, opCount, buildVars, extVars>>

Mount(w) ==
  /\ phase[w] = "rendered"
  /\ ~RenderThrows(win[w], slides)
  /\ phase' = [phase EXCEPT ![w] = "mounted"]
  /\ LET r == MountEffects(win[w], slides)
     IN /\ win' = [win EXCEPT ![w] = r.st]
        /\ Post(w, r.out)
  /\ UNCHANGED <<slides, opCount, buildVars, extVars>>

KeyDown(w) ==
  /\ phase[w] = "mounted"
  /\ opCount < MaxOps
  /\ \E key \in Keys : Commit(w, handleKeyPress(win[w], key, slides))
  /\ opCount' = opCount + 1
  /\ UNCHANGED <<slides, phase, buildVars, extVars>>

StreamDeck(w) ==
  /\ phase[w] = "mounted"
  /\ opCount < MaxOps
  /\ \E command \in Commands : Commit(w, wsOnMessage(win[w], command, slides))
  /\ opCount' = opCount + 1
  /\ UNCHANGED <<slides, phase, buildVars, extVars>>

Click(w) ==
  /\ phase[w] = "mounted"
  /\ opCount < MaxOps
  /\ \E c \in Controls(w) : Commit(w, onClick(win[w], c, slides))
  /\ opCount' = opCount + 1
  /\ UNCHANGED <<slides, phase, buildVars, extVars>>

SlideTimer(w) ==
  /\ phase[w] = "mounted"
  /\ win[w].slideElapsedMs < MaxElapsedTicks * TickMs
  /\ Commit(w, Outcome(slideTimerTick(win[w]), << >>))
  /\ UNCHANGED <<slides, phase, opCount, buildVars, extVars>>

\* mutant: the receiver posts the message it applied on to the other windows
ReceiveAndEcho(w) ==
  /\ phase[w] = "mounted"
  /\ inbox[w] # << >>
  /\ LET r == RunEffects(win[w], onmessage(win[w], Head(inbox[w])), << Head(inbox[w]) >>, slides)
     IN /\ win' = [win EXCEPT ![w] = r.st]
        /\ \A v \in Receivers(w) : Len(inbox[v]) + Len(r.out) <= MaxInbox
        /\ inbox' = [v \in Windows |->
                       IF v = w THEN Tail(inbox[w])
                       ELSE IF v \in Receivers(w) THEN inbox[v] \o r.out
                       ELSE inbox[v]]
  /\ UNCHANGED <<slides, phase, opCount, buildVars, extVars>>

Receive(w) ==
  /\ phase[w] = "mounted"
  /\ inbox[w] # << >>
  /\ LET r == RunEffects(win[w], onmessage(win[w], Head(inbox[w])), << >>, slides)
     IN /\ win' = [win EXCEPT ![w] = r.st]
        /\ \A v \in Receivers(w) : Len(inbox[v]) + Len(r.out) <= MaxInbox
        /\ inbox' = [v \in Windows |->
                       IF v = w THEN Tail(inbox[w])
                       ELSE IF v \in Receivers(w) THEN inbox[v] \o r.out
                       ELSE inbox[v]]
  /\ UNCHANGED <<slides, phase, opCount, buildVars, extVars>>

NotBuilt == [done |-> FALSE, slides |-> << >>, slideEntryMap |-> << >>]

\* ---- the parts of the state the presentation actions above leave alone
\* No input event handled yet
NoOp ==
  [ input |-> "none", name |-> "", arg |-> 0, who |-> "presenter",
    from |-> InitialState(<< >>), to |-> InitialState(<< >>), out |-> << >> ]

\* new WebSocket('ws://localhost:9000/streamdeck') has not been evaluated
WsIdle == [w \in Windows |-> "none"]

\* NotesPopout's initial slideData ('Waiting for presenter view...')
WaitingData == [slideIndex |-> 0, totalSlides |-> 0, slide |-> Slide(0, 0)]

\* No PresenterView notes channel, no notes popout
NoNotes ==
  [ closureIndex |-> 0, toPresenter |-> << >>, toPopout |-> << >>,
    popout |-> "closed", slideData |-> WaitingData, opens |-> 0, timeouts |-> << >> ]

\* The Slideshow page has not been requested
NoPage == [request |-> "none", outcome |-> "none", display |-> ""]

\* parseDurationToMs has not been called
NotParsed == [input |-> << >>, done |-> FALSE, ms |-> 0]

\* No window has run an effect: no channel object, no interval, nothing on
\* the sockets; showElapsedMs is useState(0)
NoRuntime ==
  [ now           |-> DateNow + 1,
    channel       |-> [w \in Windows |-> "none"],
    intervals     |-> [w \in Windows |-> {}],
    slideTimerRef |-> [w \in Windows |-> NULL],
    showTimerRef  |-> [w \in Windows |-> NULL],
    showElapsedMs |-> [w \in Windows |-> 0],
    wsInbox       |-> [w \in Windows |-> << >>] ]

Init ==
  /\ slides \in Decks
  /\ phase = [w \in Windows |-> "rendered"]
  /\ win \in [Windows -> { InitialState(p) : p \in UrlParams }]
  /\ inbox = [w \in Windows |-> << >>]
  /\ opCount = 0
  /\ show = << >>
  /\ tapes = << >>
  /\ built = NotBuilt
  /\ lastOp = NoOp
  /\ ws = WsIdle
  /\ notes = NoNotes
  /\ page = NoPage
  /\ parsed = NotParsed
  /\ rt = NoRuntime

Next ==
  \E w \in Windows :
    \/ RenderError(w)
    \/ Mount(w)
    \/ KeyDown(w)
    \/ StreamDeck(w)
    \/ Click(w)
    \/ SlideTimer(w)
    \/ Receive(w)

Spec == Init /\ [][Next]_vars

\* ------------------------------------------------------------- properties
Replicated(s) ==
  << s.currentSlideIndex, s.showQR, s.showLowerThird, s.portfolioLayout,
     s.selectedImage, s.autoMode >>

\* A step in which window w handled a key, a click, a device command or a
\* timer tick (and not an inbound message): its own inbox is untouched
LocalStep(w) ==
  /\ phase[w] = "mounted"
  /\ win'[w] # win[w]
  /\ inbox'[w] = inbox[w]

\* A step in which only window w's interval timer fired
TimerStep(w) ==
  /\ LocalStep(w)
  /\ opCount' = opCount

\* The messages window v was sent in this step
NewlyPosted(v) == SubSeq(inbox'[v], Len(inbox[v]) + 1, Len(inbox'[v]))

\* C1: in every reachable state of every window with a non-empty slide
\* sequence, 0 <= currentSlideIndex < slides.length
C1_CursorInRange ==
  \A w \in Windows :
    Len(slides) > 0 =>
      /\ 0 <= win[w].currentSlideIndex
      /\ win[w].currentSlideIndex < Len(slides)

\* C2: after any step that changes currentSlideIndex in a window through a
\* local operation, selectedImage is null and portfolioLayout is 'grid' there
C2_ResetOnNavigate ==
  [][ \A w \in Windows :
        (LocalStep(w) /\ win'[w].currentSlideIndex # win[w].currentSlideIndex)
          => /\ win'[w].selectedImage = NULL
             /\ win'[w].portfolioLayout = "grid" ]_vars

\* C3: selectedImage is non-null only when portfolioLayout is 'fullscreen'
C3_SelectedImpliesFullscreen ==
  \A w \in Windows :
    win[w].selectedImage # NULL => win[w].portfolioLayout = "fullscreen"

\* C4: a timer tick that takes slideElapsedMs to or past the active slide's
\* positive durationMs, with autoMode on and the slide not the last, advances
\* currentSlideIndex by exactly 1
C4_AutoAdvanceSingleFire ==
  [][ \A w \in Windows :
        (TimerStep(w) /\ AutoAdvanceDue(slideTimerTick(win[w]), slides))
          => win'[w].currentSlideIndex = win[w].currentSlideIndex + 1 ]_vars

\* C5: once every published sync message has been delivered, all windows hold
\* the same replicated PresentationState
Quiescent ==
  \A w \in Windows : phase[w] # "rendered" /\ inbox[w] = << >>

C5_ReplicasConverge ==
  Quiescent =>
    \A v, w \in Windows :
      (phase[v] = "mounted" /\ phase[w] = "mounted")
        => Replicated(win[v]) = Replicated(win[w])

\* C6: every local change of a replicated field is published: each window
\* subscribed to the channel is sent a message carrying the new value
Carries(v, type, field, value) ==
  \E k \in 1..Len(NewlyPosted(v)) :
    /\ NewlyPosted(v)[k].type = type
    /\ NewlyPosted(v)[k][field] = value

C6_EveryChangePublished ==
  [][ \A w \in Windows : \A v \in Receivers(w) :
        LocalStep(w) =>
          /\ win'[w].currentSlideIndex # win[w].currentSlideIndex
               => Carries(v, "SLIDE_CHANGE", "slideIndex", win'[w].currentSlideIndex)
          /\ win'[w].showQR # win[w].showQR
               => Carries(v, "QR_TOGGLE", "show", win'[w].showQR)
          /\ win'[w].showLowerThird # win[w].showLowerThird
               => Carries(v, "LOWER_THIRD_TOGGLE", "show", win'[w].showLowerThird)
          /\ win'[w].selectedImage # win[w].selectedImage
               => Carries(v, "SELECTED_IMAGE", "imageIndex", win'[w].selectedImage)
          /\ win'[w].portfolioLayout # win[w].portfolioLayout
               => \/ Carries(v, "PORTFOLIO_LAYOUT_TOGGLE", "layout", win'[w].portfolioLayout)
                  \/ /\ win'[w].portfolioLayout = "grid"
                     /\ Carries(v, "SELECTED_IMAGE", "imageIndex", NULL)
                  \/ /\ win'[w].portfolioLayout = "fullscreen"
                     /\ win'[w].selectedImage # NULL
                     /\ Carries(v, "SELECTED_IMAGE", "imageIndex", win'[w].selectedImage)
          /\ win'[w].autoMode # win[w].autoMode
               => Carries(v, "AUTO_MODE_TOGGLE", "auto", win'[w].autoMode) ]_vars

\* ======================================================== rundown compiler
\* Strings the compiler tests with === or includes() are sequences of tokens
\* ("skeleton:cold-open" is <<"skeleton:", "cold-open">>); the tokens are chosen
\* so that 'bumper' and 'ad-break' occur in a string only as whole tokens.
\* An optional value is << >> when absent and << v >> when present.
Absent == << >>
Some(v) == << v >>

MaxRundown == 2

Includes(str, token) == \E i \in 1..Len(str) : str[i] = token

\* ---- durations: a duration string is the sequence of its ':'-separated parts;
\* Absent stands for a missing duration.
\* Number(part): the numeric texts, with Number('') = 0; anything else is NaN
NumericTexts == { "", "0", "00", "1", "2", "03", "30", "90" }

NumberOf(part) ==
  CASE part \in {"", "0", "00"} -> 0
    [] part = "1"  -> 1
    [] part = "2"  -> 2
    [] part = "03" -> 3
    [] part = "30" -> 30
    [] part = "90" -> 90

IsNaN(part) == part \notin NumericTexts

parseDurationToMs(durationStr) ==
  IF durationStr = Absent \/ durationStr = << "" >> THEN 0
  ELSE IF \E i \in 1..Len(durationStr) : IsNaN(durationStr[i]) THEN 0
  ELSE IF Len(durationStr) = 3
    THEN (NumberOf(durationStr[1]) * 3600 + NumberOf(durationStr[2]) * 60
            + NumberOf(durationStr[3])) * 1000
  ELSE IF Len(durationStr) = 2
    THEN (NumberOf(durationStr[1]) * 60 + NumberOf(durationStr[2])) * 1000
  ELSE IF Len(durationStr) = 1
    THEN NumberOf(durationStr[1]) * 1000
  ELSE 0

\* Math.round(a / k) for a >= 0, k > 0 (halves round up)
MathRound(a, k) == (2 * a + k) \div (2 * k)

\* ---- slides: the fields the compiler's contract is about (the texts the
\* renderers show are left out); a field never assigned is Undefined
Undefined == -1
UndefinedStr == "undefined"
UndefinedLabel == << "undefined" >>

MkSlide(type, scriptType, title, slideNumber, range) ==
  [ type |-> type, scriptType |-> scriptType, title |-> title,
    slideNumber |-> slideNumber, range |-> range,
    durationMs |-> Undefined, targetTimeCode |-> UndefinedStr,
    rundownLabel |-> UndefinedLabel ]

\* a || b on strings
OrStr(a, b) == IF a # "" THEN a ELSE b

makeScriptSlide(entry, defaultType) ==
  MkSlide("script", defaultType, entry.label, 0, Absent)

\* ---- the tape of an entry: tapes[entry.tapeId], or null
HasTape(id, tapeMap) == id # "" /\ id \in DOMAIN tapeMap

\* ---- tests of the dispatch chain
EntryType(entry) == IF entry.type # << >> THEN entry.type ELSE entry.segment

IsTitleCard(entryType) ==
  entryType = << "title-card" >> \/ entryType = << "skeleton:", "cold-open" >>

IsEndCard(entryType) == entryType = << "skeleton:", "end-card" >>

\* mutant: the bumper test as an exact comparison
IsBumperExactOnly(entryType) == entryType = << "bumper" >>

IsBumper(entryType) == Includes(entryType, "bumper")

IsIntroOutro(entryType) ==
  \/ entryType = << "intro" >>
  \/ entryType = << "outro" >>
  \/ entryType = << "skeleton:", "intro" >>
  \/ entryType = << "skeleton:", "outro" >>

IsAdBreak(entryType) ==
  entryType = << "ad-break" >> \/ Includes(entryType, "ad-break")

\* mutant: a tape reference counts as inline content
HasInlineScriptOrTapeId(entry) ==
  \/ entry.script # Absent \/ entry.talkingPoints # Absent \/ entry.presenterNotes # ""
  \/ entry.tapeId # ""

HasInlineScript(entry) ==
  entry.script # Absent \/ entry.talkingPoints # Absent \/ entry.presenterNotes # ""

\* ---- expansion rules, one per branch of the dispatch chain
RECURSIVE Flatten(_)
Flatten(seqs) ==
  IF seqs = << >> THEN << >> ELSE Head(seqs) \o Flatten(Tail(seqs))

SetMin(S) == CHOOSE x \in S : \A y \in S : x <= y
SetMax(S) == CHOOSE x \in S : \A y \in S : x >= y
Elements(seq) == { seq[i] : i \in 1..Len(seq) }

titleCardSlides(entry) == << MkSlide("title", "", "episode title", 0, Absent) >>

endCardSlides(entry) == << MkSlide("title", "", "Thanks for Watching!", 0, Absent) >>

guestIntroSlides(entry, tape) ==
  << MkSlide("script", "intro", OrStr(tape.subjectName, "Guest Introduction"), 0, Absent) >>

portfolioSlides(entry, tape) ==
  << MkSlide("portfolio", "", "", 0, entry.range) >>

discussionSlides(entry, tape) ==
  << MkSlide("script", "discussion", OrStr(entry.label, "Interview Discussion"), 0, Absent) >>

panelIntroSlides(entry, tape) ==
  << MkSlide("portfolio", "", "", 0, Absent) >>

panelSlides(entry, tape) ==
  << MkSlide("script", "discussion", OrStr(entry.label, "Panel Discussion"), 0, Absent) >>

educationSlides(entry, tape) ==
  [ i \in 1..Len(tape.slides) |-> MkSlide("education", "", tape.slides[i], i, Absent) ]
  \o (IF tape.presenterNotes # "" \/ entry.presenterNotes # ""
      THEN << MkSlide("script", "cue", "Education - Presenter Notes", 0, Absent) >>
      ELSE << >>)

\* mutant: the portfolio range taken from the first and last referenced image
textQaPairSlidesFirstLast(entry, qa) ==
  << MkSlide("script", "discussion", qa.question, 0, Absent) >>
  \o (IF Len(qa.displayImages) > 0 /\ entry.interleavePortfolio # FALSE
      THEN << MkSlide("portfolio", "", "", 0,
                      Some(<< qa.displayImages[1],
                              qa.displayImages[Len(qa.displayImages)] >>)) >>
      ELSE << >>)

textQaPairSlides(entry, qa) ==
  << MkSlide("script", "discussion", qa.question, 0, Absent) >>
  \o (IF Len(qa.displayImages) > 0 /\ entry.interleavePortfolio # FALSE
      THEN << MkSlide("portfolio", "", "", 0,
                      Some(<< SetMin(Elements(qa.displayImages)),
                              SetMax(Elements(qa.displayImages)) >>)) >>
      ELSE << >>)

textQaSlides(entry, tape) ==
  (IF tape.voiceover
   THEN << MkSlide("script", "intro", "Text Q&A", 0, Absent) >>
   ELSE << >>)
  \o Flatten([ i \in 1..Len(tape.textInterview) |->
                 textQaPairSlides(entry, tape.textInterview[i]) ])

clipSlides(clip) ==
  << MkSlide("script", "cue", clip.description, 0, Absent) >>
  \o (IF clip.hostBridge # ""
      THEN << MkSlide("script", "transition", "Host Bridge", 0, Absent) >>
      ELSE << >>)

clipsSlides(entry, tape) ==
  (IF tape.hostIntro
   THEN << MkSlide("script", "intro", OrStr(entry.label, "Best Of Clips"), 0, Absent) >>
   ELSE << >>)
  \o Flatten([ i \in 1..Len(tape.clips) |-> clipSlides(tape.clips[i]) ])
  \o (IF tape.hostOutro
      THEN << MkSlide("script", "outro", "Clips - Outro", 0, Absent) >>
      ELSE << >>)

adSlotSlides(slot, tapeMap) ==
  IF HasTape(slot.tapeId, tapeMap) /\ tapeMap[slot.tapeId].sponsor
    THEN << MkSlide("script", "cue", "Sponsor", 0, Absent) >>
  ELSE IF slot.script # ""
    THEN << MkSlide("script", "cue", "TattooNOW CTA", 0, Absent) >>
  ELSE << >>

adBreakSlides(entry, tapeMap) ==
  IF entry.adSlots # Absent
    THEN Flatten([ i \in 1..Len(entry.adSlots[1]) |->
                     adSlotSlides(entry.adSlots[1][i], tapeMap) ])
  ELSE IF HasTape(entry.tapeId, tapeMap) /\ tapeMap[entry.tapeId].sponsor
    THEN << MkSlide("script", "cue", "Sponsor", 0, Absent) >>
  ELSE << makeScriptSlide(entry, "cue") >>

varietySlides(entry, tape) ==
  << MkSlide("script", "discussion", OrStr(entry.label, "Variety Segment"), 0, Absent) >>

\* ---- one iteration of the loop over the rundown: the slides the entry
\* pushes, and whether the iteration left through `continue`
Continue(newSlides) == [slides |-> newSlides, continued |-> TRUE]

RequiresTape(entryType) ==
  entryType \in { << "guest-intro" >>, << "portfolio" >>, << "discussion" >>,
                  << "panel-intro" >>, << "panel" >>, << "education" >>,
                  << "text-qa" >>, << "clips" >>, << "variety" >> }

tapeSlides(entryType, entry, tape) ==
  CASE entryType = << "guest-intro" >> -> guestIntroSlides(entry, tape)
    [] entryType = << "portfolio" >>   -> portfolioSlides(entry, tape)
    [] entryType = << "discussion" >>  -> discussionSlides(entry, tape)
    [] entryType = << "panel-intro" >> -> panelIntroSlides(entry, tape)
    [] entryType = << "panel" >>       -> panelSlides(entry, tape)
    [] entryType = << "education" >>   -> educationSlides(entry, tape)
    [] entryType = << "text-qa" >>     -> textQaSlides(entry, tape)
    [] entryType = << "clips" >>       -> clipsSlides(entry, tape)
    [] entryType = << "variety" >>     -> varietySlides(entry, tape)

\* mutant: an unhandled entry is shown as a cue slide
UnhandledAsCue(entry) ==
  [slides |-> << makeScriptSlide(entry, "cue") >>, continued |-> FALSE]

\* No branch matched: console.warn, nothing pushed, the iteration runs to its end
Unhandled(entry) == [slides |-> << >>, continued |-> FALSE]

TapeBranchTaken(entryType, entry, tapeMap) ==
  RequiresTape(entryType) /\ HasTape(entry.tapeId, tapeMap)

EntrySlides(entry, tapeMap) ==
  LET entryType == EntryType(entry)
  IN IF IsTitleCard(entryType) THEN Continue(titleCardSlides(entry))
     ELSE IF IsEndCard(entryType) THEN Continue(endCardSlides(entry))
     ELSE IF IsBumper(entryType) THEN Continue(<< >>)
     ELSE IF IsIntroOutro(entryType) THEN Continue(<< makeScriptSlide(entry, "intro") >>)
     ELSE IF TapeBranchTaken(entryType, entry, tapeMap) /\ entryType # << "variety" >>
       THEN Continue(tapeSlides(entryType, entry, tapeMap[entry.tapeId]))
     ELSE IF IsAdBreak(entryType) THEN Continue(adBreakSlides(entry, tapeMap))
     ELSE IF TapeBranchTaken(entryType, entry, tapeMap)
       THEN Continue(varietySlides(entry, tapeMap[entry.tapeId]))
     ELSE IF HasInlineScript(entry) THEN Continue(<< makeScriptSlide(entry, "cue") >>)
     ELSE Unhandled(entry)

\* ---- the loop: slides and slideEntryMap after entries entryIdx.. (0-based).
\* The recording of slideEntryMap sits at the end of the loop body, which an
\* iteration that left through `continue` never reaches.
RECURSIVE CompileFrom(_, _, _, _, _)
CompileFrom(rundown, tapeMap, entryIdx, slidesAcc, mapAcc) ==
  IF entryIdx >= Len(rundown) THEN [slides |-> slidesAcc, slideEntryMap |-> mapAcc]
  ELSE LET r == EntrySlides(rundown[entryIdx + 1], tapeMap)
           slidesAfter == slidesAcc \o r.slides
           slidesAdded == Len(slidesAfter) - Len(slidesAcc)
           mapAfter == IF r.continued THEN mapAcc
                       ELSE mapAcc \o [ k \in 1..slidesAdded |-> entryIdx ]
       IN CompileFrom(rundown, tapeMap, entryIdx + 1, slidesAfter, mapAfter)

\* ---- post-process: stamp durationMs, targetTimeCode and rundownLabel on the
\* slides slideEntryMap assigns to an entry (each slide index occurs in
\* slideEntryMap at most once, so the loop over the entries stamps it once)
RundownLabel(entry) == IF entry.label # "" THEN << entry.label >> ELSE entry.type

StampDurations(rundown, c) ==
  LET map == c.slideEntryMap
      SlideIndices(e) == { k \in 1..Len(map) : map[k] = e }
      Stamp(k) ==
        LET e == map[k]
            entry == rundown[e + 1]
            perSlideMs == MathRound(parseDurationToMs(entry.duration),
                                    Cardinality(SlideIndices(e)))
        IN [ c.slides[k] EXCEPT
               !.durationMs = perSlideMs,
               !.targetTimeCode = IF k = SetMin(SlideIndices(e)) THEN entry.timeCode ELSE "",
               !.rundownLabel = RundownLabel(entry) ]
  IN [ slides |-> [ k \in 1..Len(c.slides) |->
                      IF k <= Len(map) THEN Stamp(k) ELSE c.slides[k] ],
       slideEntryMap |-> map ]

\* buildSlidesFromShow(show, tapes): the returned slides, with the local
\* slideEntryMap kept for inspection
buildSlidesFromShow(sh, tapeMap) ==
  IF sh = Absent THEN [slides |-> << >>, slideEntryMap |-> << >>]
  ELSE StampDurations(sh[1].rundown,
                      CompileFrom(sh[1].rundown, tapeMap, 0, << >>, << >>))

\* ---- compiler inputs
Tape(subjectName, sponsor, presenterNotes) ==
  [ subjectName |-> subjectName, sponsor |-> sponsor, presenterNotes |-> presenterNotes,
    slides |-> << >>, textInterview |-> << >>, voiceover |-> FALSE,
    hostIntro |-> FALSE, hostOutro |-> FALSE, clips |-> << >> ]

Qa(question, displayImages) == [question |-> question, displayImages |-> displayImages]
Clip(description, hostBridge) == [description |-> description, hostBridge |-> hostBridge]

TapeLibrary ==
  [ id \in { "t-int", "t-edu", "t-edu-bare", "t-qa", "t-qa-novo", "t-clips", "t-ad", "t-var" } |->
      CASE id = "t-int" -> Tape("Ana", FALSE, "ask about style")
        [] id = "t-edu" ->
             [ Tape("", FALSE, "recap the numbers") EXCEPT
                 !.slides = << "Pricing", "Deposits", "Aftercare" >> ]
        [] id = "t-edu-bare" ->
             [ Tape("", FALSE, "") EXCEPT !.slides = << "Pricing", "Deposits" >> ]
        [] id = "t-qa" ->
             [ Tape("Ben", FALSE, "") EXCEPT
                 !.voiceover = TRUE,
                 !.textInterview = << Qa("Why tattoo?", << >>),
                                      Qa("Favourite piece?", << 4, 3, 5 >>) >> ]
        [] id = "t-qa-novo" ->
             [ Tape("Cy", FALSE, "") EXCEPT
                 !.textInterview = << Qa("Why tattoo?", << >>),
                                      Qa("Favourite piece?", << 3, 4, 5 >>) >> ]
        [] id = "t-clips" ->
             [ Tape("", FALSE, "") EXCEPT
                 !.hostIntro = TRUE,
                 !.clips = << Clip("Best line", "and now..."), Clip("Outtake", "") >> ]
        [] id = "t-ad" -> Tape("", TRUE, "read slowly")
        [] id = "t-var" -> Tape("", FALSE, "") ]

Restrict(f, S) == [ x \in S |-> f[x] ]

\* The resolved tape maps: every tape fetched, or some fetches failed
TapeMaps ==
  { TapeLibrary,
    Restrict(TapeLibrary, DOMAIN TapeLibrary \ { "t-int", "t-qa" }) }

Entry(type, duration, tapeId) ==
  [ type |-> type, segment |-> << >>, duration |-> duration, timeCode |-> "",
    label |-> "", tapeId |-> tapeId, script |-> Absent, talkingPoints |-> Absent,
    presenterNotes |-> "", adSlots |-> Absent, interleavePortfolio |-> TRUE,
    range |-> Absent ]

AdSlot(tapeId, script) == [tapeId |-> tapeId, script |-> script]

SomeAdSlots == Some(<< AdSlot("t-ad", ""), AdSlot("", "Join TattooNOW"), AdSlot("t-missing", "") >>)

EntryPool ==
  { Entry(<< "title-card" >>, << "0", "30" >>, ""),
    Entry(<< "skeleton:", "cold-open" >>, << "0", "30" >>, "t-missing"),
    [ Entry(<< "skeleton:", "end-card" >>, << "30" >>, "") EXCEPT !.timeCode = "58:00" ],
    Entry(<< "bumper" >>, << "0", "03" >>, ""),
    [ Entry(<< "skeleton:", "bumper" >>, << "0", "03" >>, "t-int") EXCEPT
        !.script = Some(<< "back soon" >>), !.presenterNotes = "hold" ],
    [ Entry(<< "ad-break", "-", "bumper" >>, << "0", "30" >>, "t-ad") EXCEPT
        !.adSlots = SomeAdSlots ],
    [ Entry(<< "intro" >>, << "1", "00" >>, "") EXCEPT
        !.script = Some(<< "welcome" >>), !.timeCode = "0:00", !.label = "Intro" ],
    Entry(<< "intro" >>, << "1", "00" >>, "t-missing"),
    Entry(<< "skeleton:", "outro" >>, << "x", "30" >>, ""),
    [ Entry(<< >>, << "1", "00" >>, "") EXCEPT !.segment = << "skeleton:", "intro" >> ],
    [ Entry(<< "guest-intro" >>, << "2", "00" >>, "t-int") EXCEPT !.timeCode = "2:00" ],
    Entry(<< "guest-intro" >>, << "2", "00" >>, "t-missing"),
    [ Entry(<< "guest-intro" >>, << "2", "00" >>, "t-missing") EXCEPT
        !.presenterNotes = "introduce the guest" ],
    [ Entry(<< "portfolio" >>, << "2", "30" >>, "t-int") EXCEPT !.range = Some(<< 0, 3 >>) ],
    Entry(<< "discussion" >>, << "1", "00", "00" >>, "t-int"),
    [ Entry(<< "education" >>, << "2", "00" >>, "t-edu") EXCEPT
        !.timeCode = "10:00", !.label = "Business" ],
    Entry(<< "education" >>, << "0", "01" >>, "t-edu-bare"),
    Entry(<< "education" >>, << "2", "00" >>, "t-missing"),
    Entry(<< "text-qa" >>, << "2", "00" >>, "t-qa"),
    [ Entry(<< "text-qa" >>, << "90" >>, "t-qa-novo") EXCEPT !.interleavePortfolio = FALSE ],
    Entry(<< "text-qa" >>, << "90" >>, "t-qa-novo"),
    [ Entry(<< "clips" >>, << "2", "00" >>, "t-clips") EXCEPT !.timeCode = "20:00" ],
    [ Entry(<< "ad-break" >>, << "1", "00" >>, "") EXCEPT !.adSlots = SomeAdSlots ],
    Entry(<< "ad-break" >>, << "0", "30" >>, "t-ad"),
    Entry(<< "ad-break" >>, << "0", "30" >>, "t-missing"),
    Entry(<< "mid-", "ad-break" >>, Absent, ""),
    Entry(<< "variety" >>, << "1", "00" >>, "t-var"),
    Entry(<< "variety" >>, << "1", "00" >>, "t-missing"),
    Entry(<< "mystery-segment" >>, << "1", "00" >>, ""),
    Entry(<< "mystery-segment" >>, << "1", "00" >>, "t-missing"),
    [ Entry(<< "mystery-segment" >>, << "1", "00" >>, "") EXCEPT
        !.talkingPoints = Some(<< >>) ] }

Rundowns == UNION { [1..n -> EntryPool] : n \in 0..MaxRundown }

Shows == { Some([rundown |-> r]) : r \in Rundowns }

\* ---- the compiler as a state machine: a Show and a resolved tape map are
\* given, Build applies buildSlidesFromShow to them
Build ==
  /\ ~built.done
  /\ LET r == buildSlidesFromShow(show, tapes)
     IN built' = [done |-> TRUE, slides |-> r.slides, slideEntryMap |-> r.slideEntryMap]
  /\ UNCHANGED <<show, tapes, presVars, extVars>>

BuildInit ==
  /\ show \in Shows
  /\ tapes \in TapeMaps
  /\ built = NotBuilt
  /\ slides = << >>
  /\ phase = [w \in Windows |-> "rendered"]
  /\ win = [w \in Windows |-> InitialState(<< >>)]
  /\ inbox = [w \in Windows |-> << >>]
  /\ opCount = 0
  /\ lastOp = NoOp
  /\ ws = WsIdle
  /\ notes = NoNotes
  /\ page = NoPage
  /\ parsed = NotParsed
  /\ rt = NoRuntime

BuildNext == Build

BuildSpec == BuildInit /\ [][BuildNext]_vars

\* ------------------------------------------------- properties of the compiler
RundownOf(sh) == sh[1].rundown

\* The number of slides entry i (1-based) pushed, and the slides before it
SlidesOfEntry(i) == Len(EntrySlides(RundownOf(show)[i], tapes).slides)

RECURSIVE SlidesBefore(_)
SlidesBefore(i) == IF i <= 1 THEN 0 ELSE SlidesBefore(i - 1) + SlidesOfEntry(i - 1)

\* The indices in built.slides of the slides entry i produced
RunOf(i) == (SlidesBefore(i) + 1)..(SlidesBefore(i) + SlidesOfEntry(i))

RECURSIVE SumDurations(_)
SumDurations(S) ==
  IF S = {} THEN 0
  ELSE LET k == CHOOSE x \in S : TRUE
       IN built.slides[k].durationMs + SumDurations(S \ {k})

Abs(x) == IF x < 0 THEN -x ELSE x

\* The show without its entry i
WithoutEntry(sh, i) ==
  Some([rundown |-> SubSeq(RundownOf(sh), 1, i - 1)
                      \o SubSeq(RundownOf(sh), i + 1, Len(RundownOf(sh)))])

\* C7: for every entry that produced k > 0 slides, the durationMs of those k
\* slides are set and sum to parseDurationToMs(entry.duration) to within k ms
C7_DurationConservation ==
  built.done =>
    \A i \in 1..Len(RundownOf(show)) :
      SlidesOfEntry(i) > 0 =>
        /\ \A k \in RunOf(i) : built.slides[k].durationMs # Undefined
        /\ Abs(SumDurations(RunOf(i)) - parseDurationToMs(RundownOf(show)[i].duration))
             <= SlidesOfEntry(i)

\* C8: the slide->entry index map has one element per output slide, is
\* non-decreasing and maps each slide to the rundown entry that produced it
C8_EntryMapMirrorsRundown ==
  built.done =>
    /\ Len(built.slideEntryMap) = Len(built.slides)
    /\ \A j, k \in 1..Len(built.slideEntryMap) :
         j <= k => built.slideEntryMap[j] <= built.slideEntryMap[k]
    /\ \A i \in 1..Len(RundownOf(show)) : \A k \in RunOf(i) :
         k <= Len(built.slideEntryMap) /\ built.slideEntryMap[k] = i - 1

\* An entry that references a tape the resolved map lacks and carries no
\* inline script, talkingPoints or presenterNotes
MissingTapeNoInline(entry) ==
  /\ entry.tapeId # ""
  /\ entry.tapeId \notin DOMAIN tapes
  /\ entry.script = Absent
  /\ entry.talkingPoints = Absent
  /\ entry.presenterNotes = ""

SameCountWithout(i) ==
  Len(buildSlidesFromShow(WithoutEntry(show, i), tapes).slides) = Len(built.slides)

\* C9 (as claimed): for an entry of ANY type with a missing tape and no inline
\* data, the show compiles to as many slides as the show without that entry
C9_MissingTapeAnyType ==
  built.done =>
    \A i \in 1..Len(RundownOf(show)) :
      MissingTapeNoInline(RundownOf(show)[i]) => SameCountWithout(i)

\* The types whose expansion does not read the entry's tape: title-card /
\* cold-open / end-card, intro / outro, and ad-break types without 'bumper'
TapeFreeType(type) ==
  \/ type = << "title-card" >>
  \/ type = << "skeleton:", "cold-open" >>
  \/ type = << "skeleton:", "end-card" >>
  \/ type \in { << "intro" >>, << "outro" >>, << "skeleton:", "intro" >>,
                << "skeleton:", "outro" >> }
  \/ (Includes(type, "ad-break") /\ ~Includes(type, "bumper"))

TypeOf(entry) == IF entry.type # << >> THEN entry.type ELSE entry.segment

\* C9 (amended): the same, for entries whose type is none of the tape-free types
C9_MissingTapeTolerance ==
  built.done =>
    \A i \in 1..Len(RundownOf(show)) :
      (MissingTapeNoInline(RundownOf(show)[i]) /\ ~TapeFreeType(TypeOf(RundownOf(show)[i])))
        => SameCountWithout(i)

\* C9 witness: a compiled show in which a tape-requiring entry references a
\* missing tape, next to an entry that did produce slides
C9_Witness ==
  /\ built.done
  /\ Len(built.slides) > 0
  /\ \E i \in 1..Len(RundownOf(show)) :
       /\ MissingTapeNoInline(RundownOf(show)[i])
       /\ RundownOf(show)[i].type \in { << "guest-intro" >>, << "education" >>, << "variety" >> }

\* The show without the entries whose type contains 'bumper'
ContainsBumper(entry) == \E t \in 1..Len(entry.type) : entry.type[t] = "bumper"

WithoutBumpers(sh) ==
  Some([rundown |-> SelectSeq(RundownOf(sh), LAMBDA e : ~ContainsBumper(e))])

\* C10: every entry whose type contains 'bumper' contributes zero slides: the
\* show compiles to exactly the slides of the show without its bumper entries
C10_BumperContributesNothing ==
  built.done =>
    /\ built.slides = buildSlidesFromShow(WithoutBumpers(show), tapes).slides
    /\ \A i \in 1..Len(RundownOf(show)) :
         ContainsBumper(RundownOf(show)[i]) => RunOf(i) = {}

\* C10 witness: a compiled show with slides and a bumper entry that carries a
\* tape and an inline script or adSlots
C10_Witness ==
  /\ built.done
  /\ Len(built.slides) > 0
  /\ \E i \in 1..Len(RundownOf(show)) :
       /\ ContainsBumper(RundownOf(show)[i])
       /\ RundownOf(show)[i].tapeId \in DOMAIN tapes
       /\ (RundownOf(show)[i].script # Absent \/ RundownOf(show)[i].adSlots # Absent)

\* The slides entry i produced, as a sequence
Run(i) == SubSeq(built.slides, SlidesBefore(i) + 1, SlidesBefore(i) + SlidesOfEntry(i))

\* A type none of the tests of the dispatch chain recognises
Unrecognized(type) ==
  /\ type \notin { << "title-card" >>, << "skeleton:", "cold-open" >>,
                   << "skeleton:", "end-card" >> }
  /\ ~Includes(type, "bumper")
  /\ type \notin { << "intro" >>, << "outro" >>, << "skeleton:", "intro" >>,
                   << "skeleton:", "outro" >> }
  /\ type \notin { << "guest-intro" >>, << "portfolio" >>, << "discussion" >>,
                   << "panel-intro" >>, << "panel" >>, << "education" >>,
                   << "text-qa" >>, << "clips" >>, << "variety" >> }
  /\ ~Includes(type, "ad-break")

NoInlineFields(entry) ==
  entry.script = Absent /\ entry.talkingPoints = Absent /\ entry.presenterNotes = ""

UnknownEntry(entry) == Unrecognized(TypeOf(entry)) /\ NoInlineFields(entry)

\* C11: an entry with an unrecognized type and no inline script, talkingPoints
\* or presenterNotes compiles to zero slides, and the show compiles to exactly
\* the slides of the show without that entry
C11_UnknownTypeDropped ==
  built.done =>
    \A i \in 1..Len(RundownOf(show)) :
      UnknownEntry(RundownOf(show)[i]) =>
        /\ RunOf(i) = {}
        /\ built.slides = buildSlidesFromShow(WithoutEntry(show, i), tapes).slides

\* C11 witness: a compiled show whose first entry is unknown and whose next
\* entry produced slides
C11_Witness ==
  /\ built.done
  /\ Len(RundownOf(show)) > 1
  /\ UnknownEntry(RundownOf(show)[1])
  /\ Len(built.slides) > 0

\* An 'education' entry whose tape is in the resolved map
ResolvedEducation(entry) ==
  TypeOf(entry) = << "education" >> /\ entry.tapeId # "" /\ entry.tapeId \in DOMAIN tapes

\* C12: an 'education' entry with a resolved tape of N slides compiles to N
\* 'education' slides in tape order, followed by one 'script' slide iff
\* presenter notes are non-empty; for N = 3, notes and duration '2:00' these
\* are 4 slides whose durationMs sum to 120000
C12_EducationExpansion ==
  built.done =>
    \A i \in 1..Len(RundownOf(show)) :
      ResolvedEducation(RundownOf(show)[i]) =>
        LET entry == RundownOf(show)[i]
            tape == tapes[entry.tapeId]
            N == Len(tape.slides)
            hasNotes == tape.presenterNotes # "" \/ entry.presenterNotes # ""
        IN /\ Len(Run(i)) = N + (IF hasNotes THEN 1 ELSE 0)
           /\ \A k \in 1..N :
                /\ Run(i)[k].type = "education"
                /\ Run(i)[k].title = tape.slides[k]
                /\ Run(i)[k].slideNumber = k
           /\ hasNotes => Run(i)[N + 1].type = "script"
           /\ (N = 3 /\ hasNotes /\ entry.duration = << "2", "00" >>)
                => /\ Len(Run(i)) = 4
                   /\ SumDurations(RunOf(i)) = 120000

\* A 'text-qa' entry with a resolved tape of 2 Q&A pairs, the second one
\* referencing images 3, 4 and 5, and interleaving not disabled
TextQaScenario(entry) ==
  /\ TypeOf(entry) = << "text-qa" >>
  /\ entry.tapeId # "" /\ entry.tapeId \in DOMAIN tapes
  /\ Len(tapes[entry.tapeId].textInterview) = 2
  /\ tapes[entry.tapeId].textInterview[1].displayImages = << >>
  /\ Elements(tapes[entry.tapeId].textInterview[2].displayImages) = {3, 4, 5}
  /\ entry.interleavePortfolio # FALSE

\* The slides of the scenario: an intro script slide (iff the tape has a
\* voiceover opening line), one script slide per Q&A pair and one portfolio
\* slide with range [3,5] right after the second Q&A slide
TextQaLayout(i) ==
  LET tape == tapes[RundownOf(show)[i].tapeId]
      v == IF tape.voiceover THEN 1 ELSE 0
  IN /\ Len(Run(i)) >= v + 3
     /\ v = 1 => (Run(i)[1].type = "script" /\ Run(i)[1].scriptType = "intro")
     /\ \A q \in 1..2 :
          /\ Run(i)[v + q].type = "script"
          /\ Run(i)[v + q].scriptType = "discussion"
          /\ Run(i)[v + q].title = tape.textInterview[q].question
     /\ Run(i)[v + 3].type = "portfolio"
     /\ Run(i)[v + 3].range = Some(<< 3, 5 >>)

\* C13 (as claimed): the scenario compiles to that layout, for a total of 4
\* slides without and 5 slides with a voiceover
C13_TextQaTotalFourOrFive ==
  built.done =>
    \A i \in 1..Len(RundownOf(show)) :
      TextQaScenario(RundownOf(show)[i]) =>
        /\ TextQaLayout(i)
        /\ Len(Run(i)) = (IF tapes[RundownOf(show)[i].tapeId].voiceover THEN 5 ELSE 4)

\* C13 (amended): the scenario compiles to an intro script slide (iff the tape
\* has a voiceover opening line), one script slide per Q&A pair and one
\* portfolio slide with range [3,5] right after the second Q&A slide, for a
\* total of 3 slides without and 4 slides with a voiceover
C13_TextQaInterleave ==
  built.done =>
    \A i \in 1..Len(RundownOf(show)) :
      TextQaScenario(RundownOf(show)[i]) =>
        LET tape == tapes[RundownOf(show)[i].tapeId]
            v == IF tape.voiceover THEN 1 ELSE 0
        IN /\ Len(Run(i)) = v + 3
           /\ v = 1 => (Run(i)[1].type = "script" /\ Run(i)[1].scriptType = "intro")
           /\ \A q \in 1..2 :
                /\ Run(i)[v + q].type = "script"
                /\ Run(i)[v + q].scriptType = "discussion"
                /\ Run(i)[v + q].title = tape.textInterview[q].question
           /\ Run(i)[v + 3].type = "portfolio"
           /\ Run(i)[v + 3].range = Some(<< 3, 5 >>)

\* C13 witness: a compiled show with the scenario once with and once without a
\* voiceover
C13_Witness ==
  /\ built.done
  /\ \E i, j \in 1..Len(RundownOf(show)) :
       /\ TextQaScenario(RundownOf(show)[i]) /\ tapes[RundownOf(show)[i].tapeId].voiceover
       /\ TextQaScenario(RundownOf(show)[j]) /\ ~tapes[RundownOf(show)[j].tapeId].voiceover
       /\ Len(built.slides) = 7

\* ===================================================== parseDurationToMs
\* The parts a duration string splits into at ':' ("x" is a non-numeric text)
MaxParts == 4
DurationTokens == { "", "0", "1", "03", "30", "x" }

DurationStrings ==
  { Absent } \cup UNION { [1..n -> DurationTokens] : n \in 1..MaxParts }

Parse ==
  /\ ~parsed.done
  /\ parsed' = [parsed EXCEPT !.done = TRUE, !.ms = parseDurationToMs(parsed.input)]
  /\ UNCHANGED <<presVars, buildVars, lastOp, ws, notes, page, rt>>

ParseInit ==
  /\ parsed \in { [input |-> d, done |-> FALSE, ms |-> 0] : d \in DurationStrings }
  /\ slides = << >>
  /\ phase = [w \in Windows |-> "rendered"]
  /\ win = [w \in Windows |-> InitialState(<< >>)]
  /\ inbox = [w \in Windows |-> << >>]
  /\ opCount = 0
  /\ show = << >>
  /\ tapes = << >>
  /\ built = NotBuilt
  /\ lastOp = NoOp
  /\ ws = WsIdle
  /\ notes = NoNotes
  /\ page = NoPage
  /\ rt = NoRuntime

ParseNext == Parse

ParseSpec == ParseInit /\ [][ParseNext]_vars

\* A component that is a number: numeric and not empty
NumericPart(part) == part \in NumericTexts /\ part # ""

\* The value the claim gives for a duration string
ClaimedMs(d) ==
  IF d = Absent \/ d = << "" >> THEN 0
  ELSE IF \E i \in 1..Len(d) : ~NumericPart(d[i]) THEN 0
  ELSE IF Len(d) = 3
    THEN (3600 * NumberOf(d[1]) + 60 * NumberOf(d[2]) + NumberOf(d[3])) * 1000
  ELSE IF Len(d) = 2 THEN (60 * NumberOf(d[1]) + NumberOf(d[2])) * 1000
  ELSE IF Len(d) = 1 THEN NumberOf(d[1]) * 1000
  ELSE 0

\* C18: parseDurationToMs returns (3600*H + 60*M + S)*1000 for 'H:MM:SS',
\* (60*M + S)*1000 for 'M:SS', S*1000 for bare seconds, and 0 for an empty
\* value, for any non-numeric or empty component and for more than three
\* components
C18_ParseDurationAsClaimed ==
  parsed.done => parsed.ms = ClaimedMs(parsed.input)

\* ============================================ one input event, two replicas
\* Every input event a window can get, handled in every state a mounted window
\* can be in, with a second window that starts as a replica of the first.
Event(name, arg) == [name |-> name, arg |-> arg]

Inputs == { "key", "click", "device" }

Events(input, w) ==
  CASE input = "key"    -> { Event(k, 0) : k \in Keys }
    [] input = "click"  -> { Event(c.control, c.arg) : c \in Controls(w) }
    [] input = "device" -> { Event(c.action, c.segmentNumber) : c \in Commands }

Handle(s, input, ev, deck) ==
  CASE input = "key"    -> handleKeyPress(s, ev.name, deck)
    [] input = "click"  -> onClick(s, [control |-> ev.name, arg |-> ev.arg], deck)
    [] input = "device" -> wsOnMessage(s, [action |-> ev.name, segmentNumber |-> ev.arg], deck)

\* The states a mounted window can be in between two events: any cursor,
\* overlays, layout, selection and mode, the slide timer at 0 or one tick, and
\* no auto-advance pending
OpStates(deck) ==
  { s \in [ currentSlideIndex : 0..(Len(deck) - 1), showQR : BOOLEAN,
            showLowerThird : BOOLEAN, portfolioLayout : {"grid", "fullscreen"},
            selectedImage : ImageIndices \cup {NULL}, autoMode : BOOLEAN,
            slideElapsedMs : {0, TickMs}, showStartTime : {NULL, DateNow} ] :
      ~AutoAdvanceDue(s, deck) }

\* The orders in which the messages of one handler can reach the channel (a
\* state updater that posts runs at the setState call or in the next render);
\* what the effects post follows them
Orders(out) ==
  { [ i \in 1..Len(out) |-> out[perm[i]] ] : perm \in Permutations(1..Len(out)) }

Operate(w) ==
  /\ phase[w] = "mounted"
  /\ lastOp.input = "none"
  /\ \E input \in Inputs : \E ev \in Events(input, w) :
       LET oc == Handle(win[w], input, ev, slides)
           r == RunEffects(win[w], oc.st, oc.out, slides)
       IN /\ win' = [win EXCEPT ![w] = r.st]
          /\ \E order \in Orders(oc.out) :
               inbox' = [v \in Windows |->
                           IF v \in Receivers(w)
                           THEN inbox[v] \o order
                                  \o SubSeq(r.out, Len(oc.out) + 1, Len(r.out))
                           ELSE inbox[v]]
          /\ lastOp' = [ input |-> input, name |-> ev.name, arg |-> ev.arg, who |-> w,
                         from |-> win[w], to |-> r.st, out |-> r.out ]
  /\ opCount' = opCount + 1
  /\ UNCHANGED <<slides, phase, buildVars, ws, notes, page, parsed, rt>>

OpInit ==
  /\ slides \in Decks
  /\ phase = [w \in Windows |-> "mounted"]
  /\ win \in { f \in [Windows -> OpStates(slides)] :
                 \A v, w \in Windows : Replicated(f[v]) = Replicated(f[w]) }
  /\ inbox = [w \in Windows |-> << >>]
  /\ opCount = 0
  /\ show = << >>
  /\ tapes = << >>
  /\ built = NotBuilt
  /\ lastOp = NoOp
  /\ ws = WsIdle
  /\ notes = NoNotes
  /\ page = NoPage
  /\ parsed = NotParsed
  /\ rt = NoRuntime

OpNext == \E w \in Windows : Operate(w) \/ Receive(w)

OpSpec == OpInit /\ [][OpNext]_vars

InvokesPrevious(op) ==
  \/ op.input = "key" /\ op.name \in {"ArrowLeft", "PageUp"}
  \/ op.input = "click" /\ op.name = "previousSlide"
  \/ op.input = "device" /\ op.name = "previous"

InvokesNext(op) ==
  \/ op.input = "key" /\ op.name \in {"ArrowRight", "PageDown"}
  \/ op.input = "click" /\ op.name = "nextSlide"
  \/ op.input = "device" /\ op.name = "next"

\* C14: previousSlide at index 0 and nextSlide at index slides.length - 1
\* leave currentSlideIndex unchanged
C14_EdgeStepsKeepIndex ==
  /\ (InvokesPrevious(lastOp) /\ lastOp.from.currentSlideIndex = 0)
       => lastOp.to.currentSlideIndex = 0
  /\ (InvokesNext(lastOp) /\ lastOp.from.currentSlideIndex = Len(slides) - 1)
       => lastOp.to.currentSlideIndex = Len(slides) - 1

\* C14 witness: nextSlide was called on the last slide with an image selected
C14_Witness ==
  /\ InvokesNext(lastOp)
  /\ lastOp.from.currentSlideIndex = Len(slides) - 1
  /\ lastOp.from.selectedImage # NULL
  /\ lastOp.to.selectedImage = NULL

\* The on-screen / keyboard operation a device command stands for
ScreenOperation(s, action, segmentNumber, deck) ==
  CASE action = "next"     -> onClick(s, [control |-> "nextSlide", arg |-> 0], deck)
    [] action = "previous" -> onClick(s, [control |-> "previousSlide", arg |-> 0], deck)
    [] action = "toggleQR" -> onClick(s, [control |-> "toggleQR", arg |-> 0], deck)
    [] action = "toggleLowerThird" ->
         onClick(s, [control |-> "toggleLowerThird", arg |-> 0], deck)
    [] action = "togglePortfolioLayout" -> handleKeyPress(s, "g", deck)
    [] action = "jumpToSegment" ->
         IF FindSegmentIndex(deck, segmentNumber) >= 0
         THEN onClick(s, [control |-> "jumpToSlide",
                          arg |-> FindSegmentIndex(deck, segmentNumber)], deck)
         ELSE Outcome(s, << >>)
    [] OTHER -> Outcome(s, << >>)

\* C16: a device command changes the window's state and publishes messages
\* exactly as the corresponding on-screen / keyboard operation does from the
\* same state; any other command changes nothing and publishes nothing
C16_DeviceMatchesControls ==
  lastOp.input = "device" =>
    LET oc == ScreenOperation(lastOp.from, lastOp.name, lastOp.arg, slides)
        expected == RunEffects(lastOp.from, oc.st, oc.out, slides)
    IN /\ lastOp.to = expected.st
       /\ lastOp.out = expected.out

\* C16 witness: a jumpToSegment command that moved the cursor
C16_Witness ==
  /\ lastOp.input = "device"
  /\ lastOp.name = "jumpToSegment"
  /\ lastOp.to.currentSlideIndex # lastOp.from.currentSlideIndex
  /\ Len(lastOp.out) = 2

\* The operations the claim lists: every handled event but the Home and End keys
ListedOperation(op) ==
  /\ op.input # "none"
  /\ ~(op.input = "key" /\ op.name \in {"Home", "End"})

\* C20: a window that starts in the originator's replicated state and applies
\* the messages one operation published, in whichever order they were sent,
\* ends with the originator's currentSlideIndex, showQR, showLowerThird,
\* portfolioLayout, selectedImage and autoMode
C20_MessagesReproduceOperation ==
  (ListedOperation(lastOp) /\ \A v \in Windows : inbox[v] = << >>)
    => \A v \in Windows : Replicated(win[v]) = Replicated(win[lastOp.who])

\* C20 witness: both messages of an operation that changed the cursor, the
\* selection and the layout have been applied
C20_Witness ==
  /\ ListedOperation(lastOp)
  /\ Len(lastOp.out) = 2
  /\ \A v \in Windows : inbox[v] = << >>
  /\ lastOp.to.currentSlideIndex # lastOp.from.currentSlideIndex
  /\ lastOp.from.selectedImage # NULL
  /\ lastOp.from.portfolioLayout = "fullscreen"

\* ====================================================== the notes popout
\* PresenterView and NotesPopout talk over the 'tattoonow-notes-sync' channel.
\* notes.closureIndex is the currentSlideIndex of PresenterView's first render:
\* the channel's onmessage handler is installed by an effect with no
\* dependencies, so the broadcastCurrentNotes it calls is the one that render
\* created.
MaxNotesOpens == 2

NotesUrlParams == { << >>, << 2 >> }

NotesReadyMsg == [type |-> "NOTES_READY", payload |-> WaitingData]
NotesUpdateMsg(payload) == [type |-> "NOTES_UPDATE", payload |-> payload]

\* The payload's notes, title and talking points are fields of the slide
Payload(slideIndex, deck) ==
  [slideIndex |-> slideIndex, totalSlides |-> Len(deck), slide |-> deck[slideIndex + 1]]

\* broadcastCurrentNotes as created by a render with the given currentSlideIndex
broadcastCurrentNotes(currentSlideIndex, deck) ==
  IF Len(deck) = 0 \/ currentSlideIndex + 1 \notin 1..Len(deck) THEN << >>
  ELSE << NotesUpdateMsg(Payload(currentSlideIndex, deck)) >>

\* postMessage on the notes channel reaches the popout only while it is open
ToPopout(msgs) == IF notes.popout = "open" THEN notes.toPopout \o msgs ELSE notes.toPopout

\* The presenter handles a key or a click; the effect on [broadcastCurrentNotes]
\* re-sends the notes when the slide changed
NotesNavigate ==
  /\ opCount < MaxOps
  /\ \E input \in {"key", "click"} : \E ev \in Events(input, "presenter") :
       LET oc == Handle(win["presenter"], input, ev, slides)
           r == RunEffects(win["presenter"], oc.st, oc.out, slides)
       IN /\ win' = [win EXCEPT !["presenter"] = r.st]
          /\ notes' = IF r.st.currentSlideIndex # win["presenter"].currentSlideIndex
                      THEN [notes EXCEPT !.toPopout =
                              ToPopout(broadcastCurrentNotes(r.st.currentSlideIndex, slides))]
                      ELSE notes
  /\ opCount' = opCount + 1
  /\ UNCHANGED <<slides, phase, inbox, buildVars, lastOp, ws, page, parsed, rt>>

\* openNotesPopout: the new window mounts NotesPopout, which posts NOTES_READY;
\* the click also arms setTimeout(() => broadcastCurrentNotes(), 500) with the
\* broadcastCurrentNotes of the render that was clicked
OpenNotes ==
  /\ notes.popout = "closed"
  /\ notes.opens < MaxNotesOpens
  /\ notes' = [notes EXCEPT !.popout = "open", !.slideData = WaitingData,
                            !.toPresenter = @ \o << NotesReadyMsg >>,
                            !.timeouts = @ \o << win["presenter"].currentSlideIndex >>,
                            !.opens = @ + 1]
  /\ UNCHANGED <<presVars, buildVars, lastOp, ws, page, parsed, rt>>

\* The 500 ms timeout of openNotesPopout expires
NotesTimeout ==
  /\ notes.timeouts # << >>
  /\ notes' = [notes EXCEPT
                 !.timeouts = Tail(@),
                 !.toPopout = ToPopout(broadcastCurrentNotes(Head(notes.timeouts), slides))]
  /\ UNCHANGED <<presVars, buildVars, lastOp, ws, page, parsed, rt>>

\* The popout window is closed: its channel is closed with it
CloseNotes ==
  /\ notes.popout = "open"
  /\ notes' = [notes EXCEPT !.popout = "closed", !.toPopout = << >>]
  /\ UNCHANGED <<presVars, buildVars, lastOp, ws, page, parsed, rt>>

\* notesChannelRef.current.onmessage in PresenterView
PresenterNotesMessage ==
  /\ notes.toPresenter # << >>
  /\ notes' = [notes EXCEPT
                 !.toPresenter = Tail(@),
                 !.toPopout = IF Head(notes.toPresenter).type = "NOTES_READY"
                              THEN ToPopout(broadcastCurrentNotes(notes.closureIndex, slides))
                              ELSE @]
  /\ UNCHANGED <<presVars, buildVars, lastOp, ws, page, parsed, rt>>

\* channel.onmessage in NotesPopout
PopoutMessage ==
  /\ notes.popout = "open"
  /\ notes.toPopout # << >>
  /\ notes' = [notes EXCEPT
                 !.toPopout = Tail(@),
                 !.slideData = IF Head(notes.toPopout).type = "NOTES_UPDATE"
                               THEN Head(notes.toPopout).payload ELSE @]
  /\ UNCHANGED <<presVars, buildVars, lastOp, ws, page, parsed, rt>>

\* The presenter window is mounted (its first render had the URL's slide index);
\* no audience window takes part
NotesInit ==
  /\ slides \in Decks
  /\ phase = [w \in Windows |-> IF w = "presenter" THEN "mounted" ELSE "rendered"]
  /\ \E p \in NotesUrlParams :
       /\ win = [w \in Windows |->
                   IF w = "presenter" THEN MountEffects(InitialState(p), slides).st
                   ELSE InitialState(<< >>)]
       /\ notes = [NoNotes EXCEPT !.closureIndex = InitialIndex(p)]
  /\ inbox = [w \in Windows |-> << >>]
  /\ opCount = 0
  /\ show = << >>
  /\ tapes = << >>
  /\ built = NotBuilt
  /\ lastOp = NoOp
  /\ ws = WsIdle
  /\ page = NoPage
  /\ parsed = NotParsed
  /\ rt = NoRuntime

NotesNext ==
  \/ NotesNavigate
  \/ OpenNotes
  \/ NotesTimeout
  \/ CloseNotes
  \/ PresenterNotesMessage
  \/ PopoutMessage

NotesSpec == NotesInit /\ [][NotesNext]_vars

\* A step in which the presenter handles a NOTES_READY while the popout is open
HandlesNotesReady ==
  /\ notes.toPresenter # << >>
  /\ Head(notes.toPresenter).type = "NOTES_READY"
  /\ notes'.toPresenter = Tail(notes.toPresenter)
  /\ notes.popout = "open"

\* C15: on NOTES_READY the presenter at once publishes a NOTES_UPDATE whose
\* slideIndex, notes, title and talking points are those of its current slide
C15_ReadyGetsCurrentSlide ==
  [][ HandlesNotesReady =>
        /\ Len(notes'.toPopout) = Len(notes.toPopout) + 1
        /\ notes'.toPopout[Len(notes'.toPopout)]
             = NotesUpdateMsg(Payload(win["presenter"].currentSlideIndex, slides)) ]_vars

\* ================================================ the Stream Deck WebSocket
\* ws[w] is "none" before the effect ran, "connecting" after new WebSocket(...),
\* "open" once the server accepted, "closed" after an error or a close.

\* The effect (dependency list []) runs once after mount: new WebSocket(url)
WsCreate(w) ==
  /\ phase[w] = "mounted"
  /\ ws[w] = "none"
  /\ ws' = [ws EXCEPT ![w] = "connecting"]
  /\ UNCHANGED <<presVars, buildVars, lastOp, notes, page, parsed, rt>>

\* The server accepts the connection
WsOpened(w) ==
  /\ ws[w] = "connecting"
  /\ ws' = [ws EXCEPT ![w] = "open"]
  /\ UNCHANGED <<presVars, buildVars, lastOp, notes, page, parsed, rt>>

\* The attempt fails: ws.onerror logs a warning
WsFailed(w) ==
  /\ ws[w] = "connecting"
  /\ ws' = [ws EXCEPT ![w] = "closed"]
  /\ UNCHANGED <<presVars, buildVars, lastOp, notes, page, parsed, rt>>

\* The server or the network closes the connection: no handler is installed
WsDropped(w) ==
  /\ ws[w] = "open"
  /\ ws' = [ws EXCEPT ![w] = "closed"]
  /\ UNCHANGED <<presVars, buildVars, lastOp, notes, page, parsed, rt>>

\* ws.onmessage: a command arrives over the open connection
WsCommand(w) ==
  /\ phase[w] = "mounted"
  /\ ws[w] = "open"
  /\ opCount < MaxOps
  /\ \E command \in Commands : Commit(w, wsOnMessage(win[w], command, slides))
  /\ opCount' = opCount + 1
  /\ UNCHANGED <<slides, phase, buildVars, lastOp, ws, notes, page, parsed, rt>>

DeviceInit ==
  /\ slides \in Decks
  /\ phase = [w \in Windows |-> "mounted"]
  /\ win = [w \in Windows |-> MountEffects(InitialState(<< >>), slides).st]
  /\ inbox = [w \in Windows |-> << >>]
  /\ opCount = 0
  /\ show = << >>
  /\ tapes = << >>
  /\ built = NotBuilt
  /\ lastOp = NoOp
  /\ ws = WsIdle
  /\ notes = NoNotes
  /\ page = NoPage
  /\ parsed = NotParsed
  /\ rt = NoRuntime

DeviceNext ==
  \E w \in Windows :
    \/ WsCreate(w)
    \/ WsOpened(w)
    \/ WsFailed(w)
    \/ WsDropped(w)
    \/ WsCommand(w)
    \/ Receive(w)

DeviceSpec == DeviceInit /\ [][DeviceNext]_vars

\* Every handler and effect of a window that can run eventually runs
DeviceLiveSpec ==
  DeviceSpec /\ \A w \in Windows :
                  /\ WF_vars(WsCreate(w))
                  /\ WF_vars(WsCommand(w))
                  /\ WF_vars(Receive(w))

\* C17: whenever a window's connection has failed or been closed, the window
\* eventually makes a new connection attempt
C17_ReconnectAfterLoss ==
  \A w \in Windows : (ws[w] = "closed") ~> (ws[w] = "connecting")

\* ======================================================= the Slideshow page
\* page.request: which loader the URL selects ("show" or "episode");
\* page.outcome: "pending" while loading, then what the loader returned;
\* page.display: what the window shows.

\* SlideController's render for the given episodeData (present or not) and slides
SlideControllerRender(hasEpisodeData, deck) ==
  IF ~hasEpisodeData \/ Len(deck) = 0 THEN "No episode data loaded" ELSE "slide"

\* useShowData: fetch of the show JSON is not ok -> error 'Show not found: id'
ShowNotFound ==
  /\ page.request = "show" /\ page.outcome = "pending"
  /\ page' = [page EXCEPT !.outcome = "show-not-found", !.display = "Error loading show"]
  /\ UNCHANGED <<presVars, buildVars, lastOp, ws, notes, parsed, rt>>

\* useShowData delivers show and tapes: ShowSlideshow compiles the slides and
\* renders SlideController with a synthetic episodeData object
ShowLoaded ==
  /\ page.request = "show" /\ page.outcome = "pending"
  /\ LET r == buildSlidesFromShow(show, tapes)
     IN /\ built' = [done |-> TRUE, slides |-> r.slides, slideEntryMap |-> r.slideEntryMap]
        /\ page' = [page EXCEPT !.outcome = "show-loaded",
                                !.display = SlideControllerRender(TRUE, r.slides)]
  /\ UNCHANGED <<presVars, show, tapes, lastOp, ws, notes, parsed, rt>>

\* useEpisodeData throws: EpisodeSlideshow shows the error
EpisodeError ==
  /\ page.request = "episode" /\ page.outcome = "pending"
  /\ page' = [page EXCEPT !.outcome = "episode-error", !.display = "Error loading episode"]
  /\ UNCHANGED <<presVars, buildVars, lastOp, ws, notes, parsed, rt>>

\* getEpisode returns no row: setEpisode(null), SlideController gets
\* episodeData = null and buildSlides(null) = []
EpisodeNoData ==
  /\ page.request = "episode" /\ page.outcome = "pending"
  /\ page' = [page EXCEPT !.outcome = "no-episode-data",
                          !.display = SlideControllerRender(FALSE, << >>)]
  /\ UNCHANGED <<presVars, buildVars, lastOp, ws, notes, parsed, rt>>

PageInit ==
  /\ \/ /\ page = [request |-> "show", outcome |-> "pending", display |-> "Loading show..."]
        /\ show \in Shows
        /\ tapes \in TapeMaps
     \/ /\ page = [request |-> "episode", outcome |-> "pending",
                    display |-> "Loading episode..."]
        /\ show = << >>
        /\ tapes = << >>
  /\ built = NotBuilt
  /\ slides = << >>
  /\ phase = [w \in Windows |-> "rendered"]
  /\ win = [w \in Windows |-> InitialState(<< >>)]
  /\ inbox = [w \in Windows |-> << >>]
  /\ opCount = 0
  /\ lastOp = NoOp
  /\ ws = WsIdle
  /\ notes = NoNotes
  /\ parsed = NotParsed
  /\ rt = NoRuntime

PageNext ==
  \/ ShowNotFound
  \/ ShowLoaded
  \/ EpisodeError
  \/ EpisodeNoData

PageSpec == PageInit /\ [][PageNext]_vars

\* C19: a show that loads and compiles to zero slides gets a placeholder of
\* its own: it is displayed neither as 'no episode data loaded' nor as the
\* 'show not found' error
C19_EmptyShowHasOwnPlaceholder ==
  (page.outcome = "show-loaded" /\ Len(built.slides) = 0)
    => page.display \notin { SlideControllerRender(FALSE, << >>), "Error loading show" }

\* C21: within the run of slides one rundown entry produced, the first slide
\* has the entry's timeCode as targetTimeCode, every later slide has the empty
\* string, and every slide has the entry's label (or its type) as rundownLabel
C21_TimeCodeOnFirstSlideOnly ==
  built.done =>
    \A i \in 1..Len(RundownOf(show)) : \A k \in RunOf(i) :
      /\ built.slides[k].targetTimeCode
           = IF k = SetMin(RunOf(i)) THEN RundownOf(show)[i].timeCode ELSE ""
      /\ built.slides[k].rundownLabel = RundownLabel(RundownOf(show)[i])

\* ========================================= one event of any kind, two replicas
\* As OpSpec, with the firing of the slide interval as one more kind of event.

\* The renders that follow a handler: the render with the handler's state cur
\* (the render before it had prev), then one render per batch of state updates
\* the effects queue, until a render changes nothing
RECURSIVE Renders(_, _, _)
Renders(prev, cur, deck) ==
  LET indexChanged == cur.currentSlideIndex # prev.currentSlideIndex
      autoDepsChanged == \/ indexChanged
                         \/ cur.autoMode # prev.autoMode
                         \/ cur.slideElapsedMs # prev.slideElapsedMs
      afterTimer == IF indexChanged THEN [cur EXCEPT !.slideElapsedMs = 0] ELSE cur
      nextState == IF autoDepsChanged /\ AutoAdvanceDue(cur, deck)
                   THEN nextSlide(afterTimer, Len(deck)).st ELSE afterTimer
  IN IF nextState = cur THEN << cur >>
     ELSE << cur >> \o Renders(cur, nextState, deck)

\* The slide interval of window w fires
TimerFires(w) ==
  /\ phase[w] = "mounted"
  /\ lastOp.input = "none"
  /\ LET r == RunEffects(win[w], slideTimerTick(win[w]), << >>, slides)
     IN /\ win' = [win EXCEPT ![w] = r.st]
        /\ Post(w, r.out)
        /\ lastOp' = [ input |-> "timer", name |-> "slideTimer", arg |-> 0, who |-> w,
                       from |-> win[w], to |-> r.st, out |-> r.out ]
  /\ UNCHANGED <<slides, phase, opCount, buildVars, ws, notes, page, parsed, rt>>

StepNext == \E w \in Windows : Operate(w) \/ TimerFires(w) \/ Receive(w)

StepSpec == OpInit /\ [][StepNext]_vars

\* What window w did in a step
TimerFired(w) == lastOp.input = "none" /\ lastOp'.input = "timer" /\ lastOp'.who = w
Operated(w) == lastOp.input = "none" /\ lastOp'.input \in Inputs /\ lastOp'.who = w
Received(w) == lastOp' = lastOp /\ inbox[w] # << >> /\ inbox'[w] = Tail(inbox[w])

\* The state the handler of the step left in window w, before any effect ran
HandlerState(w) ==
  IF TimerFired(w) THEN slideTimerTick(win[w])
  ELSE IF Operated(w)
    THEN Handle(win[w], lastOp'.input, Event(lastOp'.name, lastOp'.arg), slides).st
  ELSE onmessage(win[w], Head(inbox[w]))

\* Some render of the step had another currentSlideIndex than the render before
IndexChangedIn(w) ==
  LET chain == << win[w] >> \o Renders(win[w], HandlerState(w), slides)
  IN \E j \in 1..(Len(chain) - 1) :
       chain[j + 1].currentSlideIndex # chain[j].currentSlideIndex

\* C22: slideElapsedMs is zero after every step in which currentSlideIndex
\* changed (local operation, auto-advance or inbound SLIDE_CHANGE); in a step
\* without a change of index it grows by one tick of 250 ms if the interval
\* fired and keeps its value otherwise
C22_ElapsedFollowsSlide ==
  [][ \A w \in Windows :
        (TimerFired(w) \/ Operated(w) \/ Received(w)) =>
          /\ win'[w].currentSlideIndex # win[w].currentSlideIndex
               => win'[w].slideElapsedMs = 0
          /\ IndexChangedIn(w) => win'[w].slideElapsedMs = 0
          /\ (~IndexChangedIn(w) /\ TimerFired(w))
               => win'[w].slideElapsedMs = win[w].slideElapsedMs + 250
          /\ (~IndexChangedIn(w) /\ ~TimerFired(w))
               => win'[w].slideElapsedMs = win[w].slideElapsedMs ]_vars

\* C22 witness: the interval fired in a window that had spent one tick on its
\* slide, auto-advance moved it to the next slide and slideElapsedMs is zero
C22_Witness ==
  /\ lastOp.input = "timer"
  /\ lastOp.from.slideElapsedMs = TickMs
  /\ lastOp.to.currentSlideIndex > lastOp.from.currentSlideIndex
  /\ lastOp.to.slideElapsedMs = 0

\* The messages the handler of the step itself posts (before any effect ran)
HandlerOut(w) ==
  IF Operated(w)
  THEN Handle(win[w], lastOp'.input, Event(lastOp'.name, lastOp'.arg), slides).out
  ELSE << >>

\* The four conditions of the auto-advance rule, on the values of one render
AllFourHold(s) ==
  /\ s.autoMode = TRUE
  /\ slides[s.currentSlideIndex + 1].durationMs > 0
  /\ s.slideElapsedMs >= slides[s.currentSlideIndex + 1].durationMs
  /\ s.currentSlideIndex # Len(slides) - 1

\* C24: after a handler, a render changes currentSlideIndex through the
\* auto-advance rule only if autoMode is true, the active slide has
\* durationMs > 0, slideElapsedMs >= durationMs and the slide is not the last;
\* when these do not all hold in the handler's render the rule moves nothing
\* and nothing but the handler's own messages is published
C24_AutoAdvanceGuard ==
  [][ \A w \in Windows :
        (TimerFired(w) \/ Operated(w) \/ Received(w)) =>
          LET chain == Renders(win[w], HandlerState(w), slides)
          IN /\ \A j \in 1..(Len(chain) - 1) :
                  chain[j + 1].currentSlideIndex # chain[j].currentSlideIndex
                    => AllFourHold(chain[j])
             /\ ~AllFourHold(HandlerState(w)) =>
                  /\ win'[w].currentSlideIndex = HandlerState(w).currentSlideIndex
                  /\ \A v \in Windows \ {w} :
                       Len(NewlyPosted(v)) = Len(HandlerOut(w)) ]_vars

\* C24 witness: switching auto mode on in a window whose slide had used up its
\* durationMs advanced the slide
C24_Witness ==
  /\ lastOp.input = "key"
  /\ lastOp.name \in {"a", "A"}
  /\ ~lastOp.from.autoMode
  /\ lastOp.to.autoMode
  /\ lastOp.to.currentSlideIndex > lastOp.from.currentSlideIndex

\* ------------------------------------- properties of single operations (OpSpec)
\* C25: nextSlide at the last index and previousSlide at index 0 leave
\* currentSlideIndex, showQR, showLowerThird, portfolioLayout, selectedImage
\* and autoMode unchanged
C25_BoundaryIsNoOp ==
  (\/ InvokesNext(lastOp) /\ lastOp.from.currentSlideIndex = Len(slides) - 1
   \/ InvokesPrevious(lastOp) /\ lastOp.from.currentSlideIndex = 0)
    => Replicated(lastOp.to) = Replicated(lastOp.from)

\* The 0-based indices of the slides whose segment is the given label
SlidesOfSegment(label) == { i \in 0..(Len(slides) - 1) : slides[i + 1].segment = label }

\* C26: jumpToSegment(label) sets currentSlideIndex to the smallest index whose
\* slide has that segment label, and leaves the state and publishes the
\* messages jumpToSlide leaves and publishes for that index; with no matching
\* slide it changes no state field and publishes nothing
C26_JumpToSegmentFirstMatch ==
  (lastOp.input = "device" /\ lastOp.name = "jumpToSegment") =>
    IF SlidesOfSegment(lastOp.arg) # {}
    THEN LET first == SetMin(SlidesOfSegment(lastOp.arg))
             oc == jumpToSlide(lastOp.from, first, Len(slides))
             expected == RunEffects(lastOp.from, oc.st, oc.out, slides)
         IN /\ jumpToSegment(lastOp.from, lastOp.arg, slides).st.currentSlideIndex = first
            /\ oc.st.currentSlideIndex = first
            /\ lastOp.to = expected.st
            /\ lastOp.out = expected.out
    ELSE lastOp.to = lastOp.from /\ lastOp.out = << >>

\* C26 witness: from the last slide, with an image selected, a jump to the
\* segment that slide belongs to went back to the segment's first slide
C26_Witness ==
  /\ lastOp.input = "device"
  /\ lastOp.name = "jumpToSegment"
  /\ lastOp.from.currentSlideIndex = Len(slides) - 1
  /\ SlidesOfSegment(lastOp.arg) # {}
  /\ lastOp.to.currentSlideIndex = SetMin(SlidesOfSegment(lastOp.arg))
  /\ lastOp.to.currentSlideIndex < lastOp.from.currentSlideIndex
  /\ lastOp.from.selectedImage # NULL
  /\ lastOp.to.selectedImage = NULL

\* autoMode is false in every window
ManualMode == \A w \in Windows : ~win[w].autoMode

\* One input event in a session whose windows are in manual mode and in the
\* same state; every message posted to a window is eventually handled by it
ManualInit ==
  /\ OpInit
  /\ ManualMode
  /\ \A v, w \in Windows : win[v] = win[w]

ManualLiveSpec ==
  ManualInit /\ [][OpNext]_vars /\ \A w \in Windows : WF_vars(Receive(w))

\* C28: while autoMode is false in every window, a local operation sends each
\* other window exactly its own messages, a window that applies an inbound
\* message sends nothing, and after the operation the session reaches a state
\* with no message in flight
C28_NoRebroadcast ==
  /\ [][ (ManualMode /\ ManualMode') =>
           \A w \in Windows : \A v \in Windows \ {w} :
             /\ Operated(w) => NewlyPosted(v) \in Orders(HandlerOut(w))
             /\ Received(w) => NewlyPosted(v) = << >> ]_vars
  /\ (lastOp.input # "none" /\ ManualMode) ~> (\A v \in Windows : inbox[v] = << >>)

\* C28 witness: an image was selected in one window in manual mode, the other
\* window has applied the message, and nothing is in flight
C28_Witness ==
  /\ lastOp.input = "click"
  /\ lastOp.name = "onSelectImage"
  /\ lastOp.arg # NULL
  /\ lastOp.from.selectedImage = NULL
  /\ ManualMode
  /\ \A v \in Windows : inbox[v] = << >> /\ win[v].selectedImage = lastOp.arg

\* ============================================== two windows in auto mode
\* Both windows are mounted with autoMode true and the same replicated state;
\* nobody touches a key, a button or the device: only the slide intervals fire
\* and the sync messages are delivered.
AutoInit ==
  /\ OpInit
  /\ \A w \in Windows : win[w].autoMode

AutoNext == \E w \in Windows : SlideTimer(w) \/ Receive(w)

AutoSpec == AutoInit /\ [][AutoNext]_vars

\* C30: with autoMode true in both windows and no manual or device operation,
\* no step decreases a window's currentSlideIndex
C30_AutoIndexMonotone ==
  [][ (\A w \in Windows : win[w].autoMode) =>
        \A w \in Windows : win'[w].currentSlideIndex >= win[w].currentSlideIndex ]_vars

\* ===================================== one device command, two connections
\* Both windows are mounted in the same state, in manual mode, each with its
\* own open WebSocket to the Stream Deck server. The server sends one command
\* to every connection; rt.wsInbox[w] holds what is on its way to window w.
FanOutInit ==
  /\ slides \in Decks
  /\ phase = [w \in Windows |-> "mounted"]
  /\ \E s \in OpStates(slides) : ~s.autoMode /\ win = [w \in Windows |-> s]
  /\ inbox = [w \in Windows |-> << >>]
  /\ opCount = 0
  /\ show = << >>
  /\ tapes = << >>
  /\ built = NotBuilt
  /\ lastOp = NoOp
  /\ ws = [w \in Windows |-> "open"]
  /\ notes = NoNotes
  /\ page = NoPage
  /\ parsed = NotParsed
  /\ rt = NoRuntime

\* The server writes one command to every open connection
DeviceSends ==
  /\ lastOp.input = "none"
  /\ \E command \in Commands :
       /\ rt' = [rt EXCEPT !.wsInbox =
                   [w \in Windows |-> IF ws[w] = "open" THEN @[w] \o << command >> ELSE @[w]]]
       /\ lastOp' = [ input |-> "device", name |-> command.action,
                      arg |-> command.segmentNumber, who |-> "presenter",
                      from |-> win["presenter"], to |-> win["presenter"], out |-> << >> ]
  /\ UNCHANGED <<presVars, buildVars, ws, notes, page, parsed>>

\* ws.onmessage in window w for the command at the head of its connection
WsDeliver(w) ==
  /\ phase[w] = "mounted"
  /\ ws[w] = "open"
  /\ rt.wsInbox[w] # << >>
  /\ Commit(w, wsOnMessage(win[w], Head(rt.wsInbox[w]), slides))
  /\ rt' = [rt EXCEPT !.wsInbox[w] = Tail(@)]
  /\ UNCHANGED <<slides, phase, opCount, buildVars, lastOp, ws, notes, page, parsed>>

FanOutNext == DeviceSends \/ \E w \in Windows : WsDeliver(w) \/ Receive(w)

FanOutSpec == FanOutInit /\ [][FanOutNext]_vars

\* The command has been handled by both windows and every sync message applied
FanOutSettled ==
  /\ lastOp.input = "device"
  /\ \A w \in Windows : rt.wsInbox[w] = << >> /\ inbox[w] = << >>

\* C29: once a command sent to both windows has been handled by both and all
\* sync messages are delivered, both windows hold the state one application of
\* the command gives (a 'next' advanced the index by one, a toggle flipped its
\* flag once), under every interleaving
C29_FanOutAppliedOnce ==
  FanOutSettled =>
    LET once == wsOnMessage(lastOp.from,
                            [action |-> lastOp.name, segmentNumber |-> lastOp.arg],
                            slides).st
    IN \A w \in Windows : Replicated(win[w]) = Replicated(once)

\* ==================================== the lifetime of one window, with clocks
\* One SlideController from its first render to its unmount. The wall clock
\* rt.now advances in steps; DateNow in a handler's result stands for "the
\* clock's reading at the call" and is replaced by rt.now when the state is
\* committed (the clock starts above DateNow, so the two never coincide).
\* Interval timers are records [id, kind] in rt.intervals[w]; the other windows
\* of the session are the source of the inbound sync messages.
MaxClockTicks == 1

\* setInterval returns an id no active interval of the window has
NewTimerId(active) ==
  CHOOSE i \in 1..(Cardinality(active) + 1) :
    /\ \A iv \in active : iv.id # i
    /\ \A j \in 1..(i - 1) : \E iv \in active : iv.id = j

clearInterval(active, id) == { iv \in active : iv.id # id }

\* The timer handles of window w
Res(w) ==
  [ intervals |-> rt.intervals[w], slideTimerRef |-> rt.slideTimerRef[w],
    showTimerRef |-> rt.showTimerRef[w] ]

WithRes(r, w, res) ==
  [ r EXCEPT !.intervals[w] = res.intervals, !.slideTimerRef[w] = res.slideTimerRef,
             !.showTimerRef[w] = res.showTimerRef ]

\* The effect on [currentSlideIndex]: the previous run's cleanup and the body
\* both clearInterval(slideTimerRef.current), then a new interval is stored
slideTimerEffect(res) ==
  LET cleared == clearInterval(res.intervals, res.slideTimerRef)
      id == NewTimerId(cleared)
  IN [ res EXCEPT !.intervals = cleared \cup { [id |-> id, kind |-> "slide"] },
                  !.slideTimerRef = id ]

\* The effect on [showStartTime]: a run that found showStartTime set returned
\* a cleanup, which clears showTimerRef.current before the next run
showTimerEffect(res, before, after) ==
  LET cleared == IF before # NULL THEN clearInterval(res.intervals, res.showTimerRef)
                 ELSE res.intervals
      id == NewTimerId(cleared)
  IN IF after # NULL
     THEN [ res EXCEPT !.intervals = cleared \cup { [id |-> id, kind |-> "show"] },
                       !.showTimerRef = id ]
     ELSE [ res EXCEPT !.intervals = cleared ]

\* Date.now() in the committed state
AtClock(st) ==
  IF st.showStartTime = DateNow THEN [st EXCEPT !.showStartTime = rt.now] ELSE st

\* Some render after the handler had another currentSlideIndex than the one before
ChainChangesIndex(prev, base, deck) ==
  LET chain == << prev >> \o Renders(prev, base, deck)
  IN \E j \in 1..(Len(chain) - 1) :
       chain[j + 1].currentSlideIndex # chain[j].currentSlideIndex

\* A handler left window w in state base and posted out: the renders and
\* effects that follow, with their timers
LifeCommit(w, base, out) ==
  LET r == RunEffects(win[w], base, out, slides)
      st == AtClock(r.st)
      r1 == IF ChainChangesIndex(win[w], base, slides)
            THEN slideTimerEffect(Res(w)) ELSE Res(w)
      r2 == IF st.showStartTime # win[w].showStartTime
            THEN showTimerEffect(r1, win[w].showStartTime, st.showStartTime) ELSE r1
  IN /\ win' = [win EXCEPT ![w] = st]
     /\ rt' = WithRes(rt, w, r2)
     /\ Post(w, r.out)

\* The first commit: every effect runs once, in source order
LifeMount(w) ==
  /\ phase[w] = "rendered"
  /\ ~RenderThrows(win[w], slides)
  /\ phase' = [phase EXCEPT ![w] = "mounted"]
  /\ win' = [win EXCEPT ![w] = MountEffects(win[w], slides).st]
  /\ rt' = [ WithRes(rt, w, slideTimerEffect(Res(w))) EXCEPT !.channel[w] = "open" ]
  /\ ws' = [ws EXCEPT ![w] = "connecting"]
  /\ UNCHANGED <<slides, inbox, opCount, buildVars, lastOp, notes, page, parsed>>

\* A key, a click, or a command over the open WebSocket
LifeEvent(w) ==
  /\ phase[w] = "mounted"
  /\ opCount < MaxOps
  /\ \E input \in Inputs : \E ev \in Events(input, w) :
       /\ input = "device" => ws[w] = "open"
       /\ LET oc == Handle(win[w], input, ev, slides)
          IN LifeCommit(w, oc.st, oc.out)
  /\ opCount' = opCount + 1
  /\ UNCHANGED <<slides, phase, buildVars, lastOp, ws, notes, page, parsed>>

\* An active slide interval of window w fires
SlideIntervalFires(w) ==
  /\ phase[w] = "mounted"
  /\ \E iv \in rt.intervals[w] : iv.kind = "slide"
  /\ win[w].slideElapsedMs < MaxElapsedTicks * TickMs
  /\ LifeCommit(w, slideTimerTick(win[w]), << >>)
  /\ UNCHANGED <<slides, phase, opCount, buildVars, lastOp, ws, notes, page, parsed>>

\* An active show interval fires: setShowElapsedMs(Date.now() - showStartTime)
ShowIntervalFires(w) ==
  /\ phase[w] = "mounted"
  /\ \E iv \in rt.intervals[w] : iv.kind = "show"
  /\ rt' = [rt EXCEPT !.showElapsedMs[w] = rt.now - win[w].showStartTime]
  /\ UNCHANGED <<presVars, buildVars, lastOp, ws, notes, page, parsed>>

\* The sync messages another window of the session can post
SyncMessages(deck) ==
  { SlideChangeMsg(i) : i \in 0..(Len(deck) - 1) }
    \cup { QRToggleMsg(b) : b \in BOOLEAN }
    \cup { LowerThirdMsg(b) : b \in BOOLEAN }
    \cup { LayoutToggleMsg(l) : l \in {"grid", "fullscreen"} }
    \cup { SelectedImageMsg(i) : i \in ImageIndices \cup {NULL} }
    \cup { AutoModeMsg(b) : b \in BOOLEAN }

\* channelRef.current.onmessage, for a message delivered to the open channel
Inbound(w) ==
  /\ phase[w] = "mounted"
  /\ rt.channel[w] = "open"
  /\ \E m \in SyncMessages(slides) : LifeCommit(w, onmessage(win[w], m), << >>)
  /\ UNCHANGED <<slides, phase, opCount, buildVars, lastOp, ws, notes, page, parsed>>

\* Time passes
ClockAdvances ==
  /\ rt.now < DateNow + 1 + MaxClockTicks
  /\ rt' = [rt EXCEPT !.now = @ + 1]
  /\ UNCHANGED <<presVars, buildVars, lastOp, ws, notes, page, parsed>>

\* Unmount: the cleanup functions of the effects run. The channel is closed,
\* slideTimerRef.current is cleared, showTimerRef.current is cleared if the
\* show-timer effect had started an interval, and the socket is closed only if
\* its readyState is OPEN
Unmount(w) ==
  /\ phase[w] = "mounted"
  /\ phase' = [phase EXCEPT ![w] = "closed"]
  /\ LET slideCleared == clearInterval(rt.intervals[w], rt.slideTimerRef[w])
         showCleared == IF win[w].showStartTime # NULL
                        THEN clearInterval(slideCleared, rt.showTimerRef[w])
                        ELSE slideCleared
     IN rt' = [rt EXCEPT !.channel[w] = "closed", !.intervals[w] = showCleared]
  /\ ws' = [ws EXCEPT ![w] = IF @ = "open" THEN "closed" ELSE @]
  /\ UNCHANGED <<slides, win, inbox, opCount, buildVars, lastOp, notes, page, parsed>>

LifeInit ==
  /\ slides \in Decks
  /\ phase = [w \in Windows |-> "rendered"]
  /\ win = [w \in Windows |-> InitialState(<< >>)]
  /\ inbox = [w \in Windows |-> << >>]
  /\ opCount = 0
  /\ show = << >>
  /\ tapes = << >>
  /\ built = NotBuilt
  /\ lastOp = NoOp
  /\ ws = WsIdle
  /\ notes = NoNotes
  /\ page = NoPage
  /\ parsed = NotParsed
  /\ rt = NoRuntime

\* The window whose lifetime is followed
LifeNext ==
  \/ ClockAdvances
  \/ \E w \in {"presenter"} :
       \/ LifeMount(w)
       \/ LifeEvent(w)
       \/ SlideIntervalFires(w)
       \/ ShowIntervalFires(w)
       \/ Inbound(w)
       \/ WsOpened(w)
       \/ WsFailed(w)
       \/ WsDropped(w)
       \/ Unmount(w)

LifeSpec == LifeInit /\ [][LifeNext]_vars

\* C23: once set, showStartTime is never changed or cleared by any operation
\* or inbound message; a call of nextSlide leaves it set (to the clock's
\* reading if it was not set before); the show-wide elapsed time never
\* decreases
C23_ShowClockLatched ==
  [][ \A w \in Windows :
        /\ win[w].showStartTime # NULL => win'[w].showStartTime = win[w].showStartTime
        /\ win'[w].showStartTime # win[w].showStartTime => win'[w].showStartTime = rt.now
        /\ phase[w] = "mounted" =>
             AtClock(nextSlide(win[w], Len(slides)).st).showStartTime
               = IF win[w].showStartTime # NULL THEN win[w].showStartTime ELSE rt.now
        /\ rt'.showElapsedMs[w] >= rt.showElapsedMs[w] ]_vars

\* C23 witness: the show clock was latched, time passed, the show interval
\* reported the elapsed time, and the window is on a later slide
C23_Witness ==
  \E w \in Windows :
    /\ win[w].showStartTime # NULL
    /\ rt.now > win[w].showStartTime
    /\ rt.showElapsedMs[w] = rt.now - win[w].showStartTime
    /\ win[w].currentSlideIndex > 1

\* C27: a window has at most one active slide interval and at most one active
\* show interval, and after its teardown it has no active interval, no open
\* channel and no open device connection
C27_NoLeakedSubscriptions ==
  \A w \in Windows :
    /\ Cardinality({ iv \in rt.intervals[w] : iv.kind = "slide" }) <= 1
    /\ Cardinality({ iv \in rt.intervals[w] : iv.kind = "show" }) <= 1
    /\ phase[w] = "closed" =>
         /\ rt.intervals[w] = {}
         /\ rt.channel[w] # "open"
         /\ ws[w] # "open"

====
